---- MODULE Spec2Model ----
(***************************************************************************)
(* Model of ghm, the GitHub management CLI: the Encryptor, the secret and  *)
(* workflow publish pipelines (AddSecretStrategy / AddWorkflowStrategy),   *)
(* the batch operations of GHMImpl and the JSON files they keep            *)
(* (secrets.json, workflows.json, repos.json).                             *)
(*                                                                         *)
(* Strings that the code takes apart (repository identifiers) are          *)
(* sequences of one-character strings; every other string is a TLA+        *)
(* string.  A Go error is the text of its message, "nil" for no error.     *)
(***************************************************************************)
EXTENDS Naturals, Sequences, FiniteSets, TLC

VARIABLES
    secretsFile,    \* secrets.json on disk
    workflowsFile,  \* workflows.json on disk
    reposFile,      \* repos.json on disk
    accepted,       \* <<repo, name>> the remote accepted a create-or-update for
    delivered,      \* <<repo, name>> a push delivered (ok or already up to date)
    now,            \* the clock read by time.Now()
    ops,            \* commands run so far
    batch,          \* the running AddSecretsToRepo / AddWorkflowsToRepo call
    last,           \* what the last operation was given and what it returned
    config          \* the configuration file and the running process's viper

vars == <<secretsFile, workflowsFile, reposFile, accepted, delivered, now, ops, batch, last,
         config>>

----------------------------------------------------------------------------
(* Bounds of the model *)

MaxOps == 2
MaxBatch == 2

(* Program constants *)

NaClKeyLen == 32

----------------------------------------------------------------------------
(* Values *)

Nil == "nil"

RepoA == <<"o", "/", "a">>
RepoB == <<"o", "/", "b">>
RepoNoSlash == <<"o", "a">>
RepoTwoSlash == <<"o", "/", "a", "/", "x">>
RepoOnlySlash == <<"/">>
RepoNoName == <<"o", "/">>
RepoNoOwner == <<"/", "a">>

RepoInputs ==
    {RepoA, RepoNoSlash, RepoTwoSlash, RepoOnlySlash, RepoNoName, RepoNoOwner}

SecretNames == {"", "A", "B"}
SecretValues == {"v1", "v2"}
WorkflowNames == {"", "ci", "cd"}
WorkflowContents == {"", "c1"}

EmptyMap == [x \in {} |-> ""]

Put(m, k, v) == [x \in (DOMAIN m) \cup {k} |-> IF x = k THEN v ELSE m[x]]

AbsentFile == [kind |-> "absent", data |-> EmptyMap]
CorruptFile == [kind |-> "corrupt", data |-> EmptyMap]
JsonFile(m) == [kind |-> "json", data |-> m]

----------------------------------------------------------------------------
(* strings.Split(s, "/") *)

RECURSIVE SplitFrom(_, _, _)
SplitFrom(s, i, cur) ==
    IF i > Len(s) THEN <<cur>>
    ELSE IF s[i] = "/" THEN <<cur>> \o SplitFrom(s, i + 1, << >>)
    ELSE SplitFrom(s, i + 1, Append(cur, s[i]))

Split(s) == SplitFrom(s, 1, << >>)

----------------------------------------------------------------------------
(* The Encryptor (EncryptorImpl) *)

NilPublicKey == [isNil |-> TRUE, KeyID |-> Nil, Key |-> Nil]
PublicKey(id, k) == [isNil |-> FALSE, KeyID |-> id, Key |-> k]

KeyStrings == {"", "!!!", "K32", "KPKIXRSA", "KPKCS1RSA", "KPKIXEC", "KOTHER"}
KeyIDs == {Nil, "id1", "id2"}

NoBytes == [len |-> 0, der |-> "none"]

(* base64.StdEncoding.DecodeString on the key strings above: the empty     *)
(* string decodes to zero bytes without error, "!!!" is not base64.        *)
Base64Decode(s) ==
    CASE s = "!!!"       -> [err |-> "illegal base64 data", bytes |-> NoBytes]
      [] s = ""          -> [err |-> Nil, bytes |-> NoBytes]
      [] s = "K32"       -> [err |-> Nil, bytes |-> [len |-> NaClKeyLen, der |-> "none"]]
      [] s = "KPKIXRSA"  -> [err |-> Nil, bytes |-> [len |-> 294, der |-> "pkix-rsa"]]
      [] s = "KPKCS1RSA" -> [err |-> Nil, bytes |-> [len |-> 270, der |-> "pkcs1-rsa"]]
      [] s = "KPKIXEC"   -> [err |-> Nil, bytes |-> [len |-> 91, der |-> "pkix-ec"]]
      [] OTHER           -> [err |-> Nil, bytes |-> [len |-> 16, der |-> "none"]]

(* x509.ParsePKIXPublicKey / x509.ParsePKCS1PublicKey: the type of the key *)
(* parsed, or an error.                                                    *)
ParsePKIXPublicKey(bytes) ==
    CASE bytes.der = "pkix-rsa" -> [err |-> Nil, type |-> "rsa"]
      [] bytes.der = "pkix-ec"  -> [err |-> Nil, type |-> "ecdsa"]
      [] OTHER                  -> [err |-> "x509: failed to parse public key", type |-> "none"]

ParsePKCS1PublicKey(bytes) ==
    IF bytes.der = "pkcs1-rsa"
    THEN [err |-> Nil, type |-> "rsa"]
    ELSE [err |-> "x509: failed to parse PKCS1 key", type |-> "none"]

NoCipher == [alg |-> "none", key |-> "", pt |-> ""]

EncResult(ct, err, path) == [ct |-> ct, err |-> err, path |-> path]

(* rnd is what crypto/rand.Reader does in this call: "ok" or "err". *)
encryptNaCl(secretValue, keyString, rnd, path) ==
    IF rnd # "ok"
    THEN EncResult(NoCipher, "failed to encrypt secret using NaCl", Append(path, "nacl"))
    ELSE EncResult([alg |-> "nacl", key |-> keyString, pt |-> secretValue], Nil,
                   Append(path, "nacl"))

(* encryptRSA trying the PKCS1 parse before the PKIX parse *)
encryptRSAPkcs1First(secretValue, keyString, keyBytes, rnd, path) ==
    LET pkix == ParsePKIXPublicKey(keyBytes)
        pkcs1 == ParsePKCS1PublicKey(keyBytes)
        path1 == Append(path, "pkcs1")
        path2 == IF pkcs1.err # Nil THEN Append(path1, "pkix") ELSE path1
        parsed == IF pkcs1.err # Nil THEN pkix ELSE pkcs1
    IN  IF pkix.err # Nil /\ pkcs1.err # Nil
        THEN EncResult(NoCipher, "failed to parse RSA public key", path2)
        ELSE IF parsed.type # "rsa"
        THEN EncResult(NoCipher, "public key is not an RSA public key", path2)
        ELSE IF rnd # "ok"
        THEN EncResult(NoCipher, "failed to encrypt secret using RSA", Append(path2, "oaep"))
        ELSE EncResult([alg |-> "rsa-oaep", key |-> keyString, pt |-> secretValue], Nil,
                       Append(path2, "oaep"))

encryptRSA(secretValue, keyString, keyBytes, rnd, path) ==
    LET pkix == ParsePKIXPublicKey(keyBytes)
        pkcs1 == ParsePKCS1PublicKey(keyBytes)
        path1 == Append(path, "pkix")
        path2 == IF pkix.err # Nil THEN Append(path1, "pkcs1") ELSE path1
        parsed == IF pkix.err # Nil THEN pkcs1 ELSE pkix
    IN  IF pkix.err # Nil /\ pkcs1.err # Nil
        THEN EncResult(NoCipher, "failed to parse RSA public key", path2)
        ELSE IF parsed.type # "rsa"
        THEN EncResult(NoCipher, "public key is not an RSA public key", path2)
        ELSE IF rnd # "ok"
        THEN EncResult(NoCipher, "failed to encrypt secret using RSA", Append(path2, "oaep"))
        ELSE EncResult([alg |-> "rsa-oaep", key |-> keyString, pt |-> secretValue], Nil,
                       Append(path2, "oaep"))

Encrypt(secretValue, publicKey, rnd) ==
    IF publicKey.isNil \/ publicKey.Key = Nil
    THEN EncResult(NoCipher, "invalid public key provided", << >>)
    ELSE LET dec == Base64Decode(publicKey.Key)
         IN  IF dec.err # Nil
             THEN EncResult(NoCipher, "failed to decode public key", <<"decode">>)
             ELSE IF dec.bytes.len = NaClKeyLen
             THEN encryptNaCl(secretValue, publicKey.Key, rnd, <<"decode">>)
             ELSE encryptRSA(secretValue, publicKey.Key, dec.bytes, rnd, <<"decode">>)

----------------------------------------------------------------------------
(* The local store: secrets.json and workflows.json *)

(* saveSecretLocally.  io is what the file system does in this call: "ok", *)
(* or the step that fails ("open", "create", "encode").  The function      *)
(* returns nothing; the result is the file it leaves behind.  A failed     *)
(* Encode comes after os.Create has truncated the file.                    *)
saveSecretLocally(secretName, secretValue, file, io) ==
    IF file.kind # "absent" /\ io = "open" THEN file
    ELSE IF file.kind = "corrupt" THEN file
    ELSE LET secrets == Put(file.data, secretName, secretValue)
         IN  IF io = "create" THEN file
             ELSE IF io = "encode" THEN CorruptFile
             ELSE JsonFile(secrets)

(* getSecretValue / getWorkflowContent: [value, err] *)
lookupIn(file, fileName, what, name, io) ==
    IF file.kind = "absent" THEN [value |-> "", err |-> fileName \o " does not exist"]
    ELSE IF io = "open" THEN [value |-> "", err |-> "open " \o fileName]
    ELSE IF file.kind = "corrupt" THEN [value |-> "", err |-> "decode " \o fileName]
    ELSE IF name \notin DOMAIN file.data THEN [value |-> "", err |-> what \o " not found"]
    ELSE [value |-> file.data[name], err |-> Nil]

getSecretValue(secretName, file, io) ==
    lookupIn(file, "secrets.json", "secret", secretName, io)

getWorkflowContent(workflowName, file, io) ==
    lookupIn(file, "workflows.json", "workflow", workflowName, io)

(* loadSavedSecrets / loadSavedWorkflows: the names saved in the file, as  *)
(* a set (the code ranges over a map), or an error; the file is only read. *)
loadSavedNames(file, fileName, io) ==
    IF file.kind = "absent"
    THEN [names |-> {}, err |-> fileName \o " does not exist", file |-> file]
    ELSE IF io = "open" THEN [names |-> {}, err |-> "open " \o fileName, file |-> file]
    ELSE IF file.kind = "corrupt"
    THEN [names |-> {}, err |-> "decode " \o fileName, file |-> file]
    ELSE [names |-> DOMAIN file.data, err |-> Nil, file |-> file]

loadSavedSecrets(file, io) == loadSavedNames(file, "secrets.json", io)

loadSavedWorkflows(file, io) == loadSavedNames(file, "workflows.json", io)

----------------------------------------------------------------------------
(* AddSecretStrategy.Execute *)

(* What the world does during one Execute: the remote's answer to the key  *)
(* fetch ("err" or a key), the random source, the remote's answer to the   *)
(* create-or-update, and the file system under saveSecretLocally.          *)
SecretEnv(fetch, key, rnd, upsert, io) ==
    [fetch |-> fetch, key |-> key, rnd |-> rnd, upsert |-> upsert, io |-> io]

NoRequest == [Name |-> "", KeyID |-> Nil, EncryptedValue |-> NoCipher]

SecretResult(err, stages, calls, request, file) ==
    [err |-> err, stages |-> stages, calls |-> calls, request |-> request, file |-> file]

(* AddSecretExecute with the local save moved before the create-or-update *)
AddSecretExecuteSavesBeforeUpsert(Repo, SecretName, SecretValue, env, file) ==
    LET parts == Split(Repo)
        enc == Encrypt(SecretValue, env.key, env.rnd)
        request == [Name |-> SecretName, KeyID |-> env.key.KeyID, EncryptedValue |-> enc.ct]
        saved == saveSecretLocally(SecretName, SecretValue, file, env.io)
    IN  IF Len(parts) # 2
        THEN SecretResult("invalid repository format", <<"Validating">>, << >>, NoRequest, file)
        ELSE IF env.fetch # "ok"
        THEN SecretResult("GetRepoPublicKey failed", <<"Validating", "FetchingKey">>,
                          <<"GetRepoPublicKey">>, NoRequest, file)
        ELSE IF env.key.KeyID = Nil
        THEN SecretResult("public key ID is nil", <<"Validating", "FetchingKey">>,
                          <<"GetRepoPublicKey">>, NoRequest, file)
        ELSE IF enc.err # Nil
        THEN SecretResult(enc.err, <<"Validating", "FetchingKey", "Encrypting">>,
                          <<"GetRepoPublicKey">>, NoRequest, file)
        ELSE IF env.upsert # "ok"
        THEN SecretResult("CreateOrUpdateRepoSecret failed",
                          <<"Validating", "FetchingKey", "Encrypting", "Persisting", "Upserting">>,
                          <<"GetRepoPublicKey", "CreateOrUpdateRepoSecret">>, request, saved)
        ELSE SecretResult(Nil,
                          <<"Validating", "FetchingKey", "Encrypting", "Persisting", "Upserting">>,
                          <<"GetRepoPublicKey", "CreateOrUpdateRepoSecret">>, request, saved)

(* AddSecretExecute asking for the public key a second time when the first *)
(* request fails                                                           *)
AddSecretExecuteRetriesFetch(Repo, SecretName, SecretValue, env, file) ==
    LET parts == Split(Repo)
        enc == Encrypt(SecretValue, env.key, env.rnd)
        request == [Name |-> SecretName, KeyID |-> env.key.KeyID, EncryptedValue |-> enc.ct]
    IN  IF Len(parts) # 2
        THEN SecretResult("invalid repository format", <<"Validating">>, << >>, NoRequest, file)
        ELSE IF env.fetch # "ok"
        THEN SecretResult("GetRepoPublicKey failed", <<"Validating", "FetchingKey">>,
                          <<"GetRepoPublicKey", "GetRepoPublicKey">>, NoRequest, file)
        ELSE IF env.key.KeyID = Nil
        THEN SecretResult("public key ID is nil", <<"Validating", "FetchingKey">>,
                          <<"GetRepoPublicKey">>, NoRequest, file)
        ELSE IF enc.err # Nil
        THEN SecretResult(enc.err, <<"Validating", "FetchingKey", "Encrypting">>,
                          <<"GetRepoPublicKey">>, NoRequest, file)
        ELSE IF env.upsert # "ok"
        THEN SecretResult("CreateOrUpdateRepoSecret failed",
                          <<"Validating", "FetchingKey", "Encrypting", "Upserting">>,
                          <<"GetRepoPublicKey", "CreateOrUpdateRepoSecret">>, request, file)
        ELSE SecretResult(Nil,
                          <<"Validating", "FetchingKey", "Encrypting", "Upserting", "Persisting">>,
                          <<"GetRepoPublicKey", "CreateOrUpdateRepoSecret">>, request,
                          saveSecretLocally(SecretName, SecretValue, file, env.io))

(* AddSecretExecute sealing with a key kept from an earlier invocation *)
AddSecretExecuteCachedKey(Repo, SecretName, SecretValue, env, file) ==
    LET parts == Split(Repo)
        enc == Encrypt(SecretValue, PublicKey("id1", "K32"), env.rnd)
        request == [Name |-> SecretName, KeyID |-> "id1", EncryptedValue |-> enc.ct]
    IN  IF Len(parts) # 2
        THEN SecretResult("invalid repository format", <<"Validating">>, << >>, NoRequest, file)
        ELSE IF env.fetch # "ok"
        THEN SecretResult("GetRepoPublicKey failed", <<"Validating", "FetchingKey">>,
                          <<"GetRepoPublicKey">>, NoRequest, file)
        ELSE IF env.key.KeyID = Nil
        THEN SecretResult("public key ID is nil", <<"Validating", "FetchingKey">>,
                          <<"GetRepoPublicKey">>, NoRequest, file)
        ELSE IF enc.err # Nil
        THEN SecretResult(enc.err, <<"Validating", "FetchingKey", "Encrypting">>,
                          <<"GetRepoPublicKey">>, NoRequest, file)
        ELSE IF env.upsert # "ok"
        THEN SecretResult("CreateOrUpdateRepoSecret failed",
                          <<"Validating", "FetchingKey", "Encrypting", "Upserting">>,
                          <<"GetRepoPublicKey", "CreateOrUpdateRepoSecret">>, request, file)
        ELSE SecretResult(Nil,
                          <<"Validating", "FetchingKey", "Encrypting", "Upserting", "Persisting">>,
                          <<"GetRepoPublicKey", "CreateOrUpdateRepoSecret">>, request,
                          saveSecretLocally(SecretName, SecretValue, file, env.io))

AddSecretExecute(Repo, SecretName, SecretValue, env, file) ==
    LET parts == Split(Repo)
        enc == Encrypt(SecretValue, env.key, env.rnd)
        request == [Name |-> SecretName, KeyID |-> env.key.KeyID, EncryptedValue |-> enc.ct]
    IN  IF Len(parts) # 2
        THEN SecretResult("invalid repository format", <<"Validating">>, << >>, NoRequest, file)
        ELSE IF env.fetch # "ok"
        THEN SecretResult("GetRepoPublicKey failed", <<"Validating", "FetchingKey">>,
                          <<"GetRepoPublicKey">>, NoRequest, file)
        ELSE IF env.key.KeyID = Nil
        THEN SecretResult("public key ID is nil", <<"Validating", "FetchingKey">>,
                          <<"GetRepoPublicKey">>, NoRequest, file)
        ELSE IF enc.err # Nil
        THEN SecretResult(enc.err, <<"Validating", "FetchingKey", "Encrypting">>,
                          <<"GetRepoPublicKey">>, NoRequest, file)
        ELSE IF env.upsert # "ok"
        THEN SecretResult("CreateOrUpdateRepoSecret failed",
                          <<"Validating", "FetchingKey", "Encrypting", "Upserting">>,
                          <<"GetRepoPublicKey", "CreateOrUpdateRepoSecret">>, request, file)
        ELSE SecretResult(Nil,
                          <<"Validating", "FetchingKey", "Encrypting", "Upserting", "Persisting">>,
                          <<"GetRepoPublicKey", "CreateOrUpdateRepoSecret">>, request,
                          saveSecretLocally(SecretName, SecretValue, file, env.io))

(* publicKey in Execute: what GetRepoPublicKey returned in this call, nil  *)
(* when the call was not made or failed.                                   *)
FetchedKey(r, env) ==
    IF (\E i \in 1..Len(r.calls) : r.calls[i] = "GetRepoPublicKey") /\ env.fetch = "ok"
    THEN env.key
    ELSE NilPublicKey

(* The remote accepts a create-or-update when the request is sent and the  *)
(* remote answers without error.                                           *)
RemoteAccepts(r, env) ==
    /\ \E i \in 1..Len(r.calls) : r.calls[i] = "CreateOrUpdateRepoSecret"
    /\ env.upsert = "ok"

----------------------------------------------------------------------------
(* AddWorkflowStrategy.Execute *)

(* What the world does during one Execute: failAt is the first step before *)
(* the push that fails ("none" when none does), push is the error          *)
(* repoGit.Push returns: nil, git.NoErrAlreadyUpToDate or another error.   *)
WorkflowEnv(failAt, push) == [failAt |-> failAt, push |-> push]

NoErrAlreadyUpToDate == "already up-to-date"
PushErrors == {Nil, NoErrAlreadyUpToDate, "push rejected"}

WorkflowSteps ==
    <<"tempdir", "clone", "worktree", "mkdir", "write", "add", "commit", "commitobj">>

WorkflowResult(err, stages, calls, fsops) ==
    [err |-> err, stages |-> stages, calls |-> calls, fsops |-> fsops]

(* The stage, the remote call and the disk effect of each step. *)
StageOf(step) ==
    CASE step \in {"tempdir", "clone", "worktree"} -> "Acquiring"
      [] step \in {"mkdir", "write"} -> "Writing"
      [] OTHER -> "Committing"

CallOf(step) == IF step = "clone" THEN <<"PlainClone">> ELSE << >>

FsOpOf(step, failed) ==
    CASE step = "tempdir" /\ ~failed -> <<"TempDir">>
      [] step = "mkdir" /\ ~failed -> <<"MkdirAll">>
      [] step = "write" /\ ~failed -> <<"WriteFile">>
      [] OTHER -> << >>

AddStage(stages, st) ==
    IF Len(stages) > 0 /\ stages[Len(stages)] = st THEN stages ELSE Append(stages, st)

(* PushFailed without the exception for git.NoErrAlreadyUpToDate *)
PushFailedOnAnyError(pushErr) == pushErr # Nil

(* if err != nil && err != git.NoErrAlreadyUpToDate { return err } *)
PushFailed(pushErr) == pushErr # Nil /\ pushErr # NoErrAlreadyUpToDate

(* RunWorkflow with os.RemoveAll(tmpDir) called at the end of Execute       *)
(* instead of deferred: an early return leaves the directory behind        *)
RECURSIVE RunWorkflowRemovesAtEnd(_, _, _, _, _)
RunWorkflowRemovesAtEnd(i, env, stages, calls, fsops) ==
    IF i > Len(WorkflowSteps)
    THEN WorkflowResult(IF PushFailed(env.push) THEN env.push ELSE Nil,
                        Append(stages, "Pushing"), Append(calls, "Push"),
                        IF PushFailed(env.push) THEN fsops ELSE Append(fsops, "RemoveAll"))
    ELSE LET step == WorkflowSteps[i]
             failed == env.failAt = step
             stages1 == AddStage(stages, StageOf(step))
             calls1 == calls \o CallOf(step)
             fsops1 == fsops \o FsOpOf(step, failed)
         IN  IF failed
             THEN WorkflowResult(step \o " failed", stages1, calls1, fsops1)
             ELSE RunWorkflowRemovesAtEnd(i + 1, env, stages1, calls1, fsops1)

(* The steps of Execute from step i on, each returning at its failure,     *)
(* then the push; the deferred os.RemoveAll(tmpDir) runs at every return   *)
(* after TempDir succeeded.                                                *)
RECURSIVE RunWorkflow(_, _, _, _, _)
RunWorkflow(i, env, stages, calls, fsops) ==
    IF i > Len(WorkflowSteps)
    THEN WorkflowResult(IF PushFailed(env.push) THEN env.push ELSE Nil,
                        Append(stages, "Pushing"), Append(calls, "Push"),
                        Append(fsops, "RemoveAll"))
    ELSE LET step == WorkflowSteps[i]
             failed == env.failAt = step
             stages1 == AddStage(stages, StageOf(step))
             calls1 == calls \o CallOf(step)
             fsops1 == fsops \o FsOpOf(step, failed)
         IN  IF failed
             THEN WorkflowResult(step \o " failed", stages1, calls1,
                                 IF step = "tempdir" THEN fsops1 ELSE Append(fsops1, "RemoveAll"))
             ELSE RunWorkflow(i + 1, env, stages1, calls1, fsops1)

(* AddWorkflowExecute with the temporary directory and the clone made      *)
(* before the repository string is checked                                 *)
AddWorkflowExecuteValidatesLate(Repo, WorkflowName, Content, env) ==
    LET parts == Split(Repo)
    IN  IF env.failAt = "tempdir"
        THEN WorkflowResult("tempdir failed", <<"Acquiring">>, << >>, << >>)
        ELSE IF env.failAt = "clone"
        THEN WorkflowResult("clone failed", <<"Acquiring">>, <<"PlainClone">>,
                            <<"TempDir", "RemoveAll">>)
        ELSE IF Len(parts) # 2
        THEN WorkflowResult("invalid repository format", <<"Acquiring", "Validating">>,
                            <<"PlainClone">>, <<"TempDir", "RemoveAll">>)
        ELSE RunWorkflow(3, env, <<"Acquiring", "Validating">>, <<"PlainClone">>, <<"TempDir">>)

AddWorkflowExecute(Repo, WorkflowName, Content, env) ==
    LET parts == Split(Repo)
    IN  IF Len(parts) # 2
        THEN WorkflowResult("invalid repository format", <<"Validating">>, << >>, << >>)
        ELSE RunWorkflow(1, env, <<"Validating">>, << >>, << >>)

(* A push delivers when it is sent and the remote takes it or already has  *)
(* it.                                                                     *)
PushDelivers(r, env) ==
    /\ \E i \in 1..Len(r.calls) : r.calls[i] = "Push"
    /\ env.push \in {Nil, NoErrAlreadyUpToDate}

----------------------------------------------------------------------------
(* repos.json: ReposConfig, LoadReposConfig, SaveReposConfig *)

RepoConfig(secrets, workflows, lastUpdate) ==
    [Secrets |-> secrets, Workflows |-> workflows, LastUpdate |-> lastUpdate]

EmptyRepos == [r \in {} |-> RepoConfig(<< >>, << >>, 0)]

(* encoding/json on ReposConfig: the document written by Encode carries    *)
(* the fields under their json tags, and Decode reads them back into the   *)
(* struct.                                                                 *)
EncodeRepoConfig(repoConfig) ==
    [secrets |-> repoConfig.Secrets, workflows |-> repoConfig.Workflows,
     last_update |-> repoConfig.LastUpdate]

(* DecodeRepoConfig with the Workflows field tagged json:"secrets" *)
DecodeRepoConfigWrongTag(obj) == RepoConfig(obj.secrets, obj.secrets, obj.last_update)

DecodeRepoConfig(obj) == RepoConfig(obj.secrets, obj.workflows, obj.last_update)

EncodeReposConfig(reposConfig) ==
    [repositories |-> [r \in DOMAIN reposConfig |-> EncodeRepoConfig(reposConfig[r])]]

DecodeReposConfig(doc) ==
    [r \in DOMAIN doc.repositories |-> DecodeRepoConfig(doc.repositories[r])]

(* LoadReposConfig: a missing file is created holding the empty structure. *)
LoadReposConfig(file) ==
    IF file.kind = "absent"
    THEN [cfg |-> EmptyRepos, err |-> Nil, file |-> JsonFile(EncodeReposConfig(EmptyRepos))]
    ELSE IF file.kind = "corrupt"
    THEN [cfg |-> EmptyRepos, err |-> "decode repos.json", file |-> file]
    ELSE [cfg |-> DecodeReposConfig(file.data), err |-> Nil, file |-> file]

SaveReposConfig(reposConfig) == JsonFile(EncodeReposConfig(reposConfig))

(* The "Update reposConfig" block of AddSecretsToRepo / AddWorkflowsToRepo *)
recordOf(reposConfig, targetRepo, t) ==
    IF targetRepo \in DOMAIN reposConfig
    THEN reposConfig[targetRepo]
    ELSE RepoConfig(<< >>, << >>, t)

recordSecret(reposConfig, targetRepo, secretName, t) ==
    LET repoConfig == recordOf(reposConfig, targetRepo, t)
    IN  Put(reposConfig, targetRepo,
            RepoConfig(Append(repoConfig.Secrets, secretName), repoConfig.Workflows, t))

(* recordWorkflow starting from a fresh record *)
recordWorkflowFromFreshRecord(reposConfig, targetRepo, workflowName, t) ==
    Put(reposConfig, targetRepo, RepoConfig(<< >>, <<workflowName>>, t))

recordWorkflow(reposConfig, targetRepo, workflowName, t) ==
    LET repoConfig == recordOf(reposConfig, targetRepo, t)
    IN  Put(reposConfig, targetRepo,
            RepoConfig(repoConfig.Secrets, Append(repoConfig.Workflows, workflowName), t))

(* secretItem with the "continue" after a failed lookup missing *)
secretItemRecordsSkipped(targetRepo, secretName, reposConfig, file, lookupIo, env, t) ==
    LET got == getSecretValue(secretName, file, lookupIo)
        res == AddSecretExecute(targetRepo, secretName, got.value, env, file)
    IN  IF got.err # Nil
        THEN [err |-> got.err, ran |-> FALSE,
              cfg |-> recordSecret(reposConfig, targetRepo, secretName, t), file |-> file,
              res |-> SecretResult("not run", << >>, << >>, NoRequest, file),
              value |-> got.value]
        ELSE IF res.err # Nil
        THEN [err |-> res.err, ran |-> TRUE, res |-> res, cfg |-> reposConfig,
              file |-> res.file, value |-> got.value]
        ELSE [err |-> Nil, ran |-> TRUE, res |-> res,
              cfg |-> recordSecret(reposConfig, targetRepo, secretName, t),
              file |-> res.file, value |-> got.value]

(* One pass of the loop body of AddSecretsToRepo: the lookup, the          *)
(* pipeline, the update of reposConfig.  err is the error that made the    *)
(* pass "continue", nil when the name was recorded.                        *)
secretItem(targetRepo, secretName, reposConfig, file, lookupIo, env, t) ==
    LET got == getSecretValue(secretName, file, lookupIo)
        res == AddSecretExecute(targetRepo, secretName, got.value, env, file)
    IN  IF got.err # Nil
        THEN [err |-> got.err, ran |-> FALSE, cfg |-> reposConfig, file |-> file,
              res |-> SecretResult("not run", << >>, << >>, NoRequest, file),
              value |-> got.value]
        ELSE IF res.err # Nil
        THEN [err |-> res.err, ran |-> TRUE, res |-> res, cfg |-> reposConfig,
              file |-> res.file, value |-> got.value]
        ELSE [err |-> Nil, ran |-> TRUE, res |-> res,
              cfg |-> recordSecret(reposConfig, targetRepo, secretName, t),
              file |-> res.file, value |-> got.value]

(* workflowItem with the "continue" after a failed AddWorkflow missing *)
workflowItemRecordsFailed(targetRepo, workflowName, reposConfig, file, lookupIo, env, t) ==
    LET got == getWorkflowContent(workflowName, file, lookupIo)
        res == AddWorkflowExecute(targetRepo, workflowName, got.value, env)
    IN  IF got.err # Nil
        THEN [err |-> got.err, ran |-> FALSE, cfg |-> reposConfig,
              res |-> WorkflowResult("not run", << >>, << >>, << >>),
              value |-> got.value]
        ELSE [err |-> res.err, ran |-> TRUE, res |-> res,
              cfg |-> recordWorkflow(reposConfig, targetRepo, workflowName, t),
              value |-> got.value]

workflowItem(targetRepo, workflowName, reposConfig, file, lookupIo, env, t) ==
    LET got == getWorkflowContent(workflowName, file, lookupIo)
        res == AddWorkflowExecute(targetRepo, workflowName, got.value, env)
    IN  IF got.err # Nil
        THEN [err |-> got.err, ran |-> FALSE, cfg |-> reposConfig,
              res |-> WorkflowResult("not run", << >>, << >>, << >>),
              value |-> got.value]
        ELSE IF res.err # Nil
        THEN [err |-> res.err, ran |-> TRUE, res |-> res, cfg |-> reposConfig,
              value |-> got.value]
        ELSE [err |-> Nil, ran |-> TRUE, res |-> res,
              cfg |-> recordWorkflow(reposConfig, targetRepo, workflowName, t),
              value |-> got.value]

(* nextItem with "break" in place of "continue" *)
nextItemBreaksOnError(i, names, err) == IF err # Nil THEN Len(names) + 1 ELSE i + 1

(* Where the loop goes after a pass: "continue" and the end of the body    *)
(* both go to the next name.                                               *)
nextItem(i, names, err) == i + 1

(* What the batch operations return after the loop. *)
batchReturn(failed) == Nil

----------------------------------------------------------------------------
(* The environment's choices *)

GoodKeys == {PublicKey("id1", "K32"), PublicKey("id2", "KPKIXRSA")}
BadKeys == {PublicKey(Nil, "K32"), PublicKey("id1", "!!!"), PublicKey("id1", "")}
SaveIo == {"ok", "open", "create", "encode"}

(* The repositories that exist on the remote; a request about any other    *)
(* repository fails there.                                                 *)
RemoteRepos == {RepoA, RepoB}

FetchFails == SecretEnv("err", NilPublicKey, "ok", "ok", "ok")

SecretEnvs ==
    {FetchFails}
        \cup {SecretEnv("ok", k, "ok", "ok", "ok") : k \in BadKeys}
        \cup {SecretEnv("ok", PublicKey("id1", "K32"), "err", "ok", "ok")}
        \cup {SecretEnv("ok", PublicKey("id2", "KPKIXRSA"), "ok", "err", "ok")}
        \cup {SecretEnv("ok", PublicKey("id1", "K32"), "ok", "ok", "ok")}
        \cup {SecretEnv("ok", PublicKey("id2", "KPKIXRSA"), "ok", "ok", io) : io \in SaveIo}

(* The remote has no secret with an empty name: PUT .../actions/secrets/   *)
(* is not a route, so that create-or-update fails.                         *)
SecretEnvsFor(repo, secretName) ==
    IF repo \notin RemoteRepos THEN {FetchFails}
    ELSE IF secretName = "" THEN {e \in SecretEnvs : e.upsert = "err" \/ e.fetch = "err"
                                                     \/ e.key \in BadKeys \/ e.rnd = "err"}
    ELSE SecretEnvs

(* The choices for one pass of a batch: the lookup's file system and the   *)
(* pipeline's environment.                                                 *)
BatchSecretEnvsFor(repo) ==
    {<<"open", FetchFails>>}
        \cup {<<"ok", env>> : env \in {e \in SecretEnvsFor(repo, "A") :
                                            /\ e.io \in {"ok", "encode"}
                                            /\ e.key \in {NilPublicKey, PublicKey("id2", "KPKIXRSA")}}}

CloneFails == WorkflowEnv("clone", Nil)

WorkflowEnvs ==
    {WorkflowEnv(WorkflowSteps[i], Nil) : i \in 1..Len(WorkflowSteps)}
        \cup {WorkflowEnv("none", e) : e \in PushErrors}

(* A clone of a repository the remote does not have fails; with an empty  *)
(* workflow name the path written is the directory .github/workflows, and  *)
(* WriteFile fails on it.                                                  *)
WorkflowEnvsFor(repo, workflowName) ==
    IF repo \notin RemoteRepos THEN {WorkflowEnv("tempdir", Nil), CloneFails}
    ELSE IF workflowName = ""
    THEN {WorkflowEnv(WorkflowSteps[i], Nil) : i \in 1..5}
    ELSE WorkflowEnvs

BatchWorkflowEnvsFor(repo) ==
    {<<"open", CloneFails>>}
        \cup {<<"ok", env>> : env \in {e \in WorkflowEnvsFor(repo, "ci") :
                                            e.failAt \in {"none", "clone"}}}

BatchRepoInputs == {RepoA, RepoB, RepoNoSlash}
BatchSecretNames == {"A", "B"}
BatchWorkflowNames == {"ci", "cd"}

(* The instants the clock shows *)
Instants == {0, 1}

SeqsUpTo(S, n) == UNION {[1..k -> S] : k \in 0..n}

Idle ==
    [pc |-> "idle", repo |-> << >>, names |-> << >>, i |-> 0, cfg |-> EmptyRepos,
     base |-> EmptyRepos, attempted |-> << >>, succeeded |-> << >>, failed |-> FALSE]

----------------------------------------------------------------------------
(* The configuration: viper and its file *)

ConfigKeys == {"api_key", "API_KEY", "region"}
ConfigValues == {"x", "y"}

(* viper keys are case-insensitive: every key is folded to lower case *)
ToLower(key) == IF key = "API_KEY" THEN "api_key" ELSE key

ConfigFileNotFoundError == "Config File Not Found"

(* viper.New(): the package-level viper before initConfig *)
NewViper ==
    [configName |-> "config", configType |-> "", configPaths |-> << >>,
     configFile |-> "", config |-> EmptyMap, override |-> EmptyMap]

(* No configuration file, no process running *)
NoConfig == [file |-> AbsentFile, up |-> FALSE, viper |-> NewViper]

(* The file viper works on: the one it found before, or config.<ext> in    *)
(* one of the search paths; "" when there is none.                         *)
getConfigFile(v, file) ==
    IF v.configFile # "" THEN v.configFile
    ELSE IF v.configPaths = << >> \/ file.kind = "absent" THEN ""
    ELSE "config.json"

(* viper.ReadInConfig *)
ReadInConfig(v, file) ==
    LET filename == getConfigFile(v, file)
    IN  IF filename = "" THEN [err |-> ConfigFileNotFoundError, v |-> v]
        ELSE [err |-> Nil,
              v |-> [v EXCEPT !.configFile = filename, !.config = file.data]]

(* viper.AllSettings: what was set in this process over what was read *)
AllSettings(v) ==
    [k \in (DOMAIN v.config) \cup (DOMAIN v.override) |->
        IF k \in DOMAIN v.override THEN v.override[k] ELSE v.config[k]]

(* viper.GetString *)
GetString(key, v) ==
    LET all == AllSettings(v)
    IN  IF ToLower(key) \in DOMAIN all THEN all[ToLower(key)] ELSE ""

(* viper's writeConfig: ext is the extension of the file name; io is what *)
(* the file system does.                                                   *)
writeConfig(v, ext, force, file, io) ==
    IF ext = "" THEN [err |-> "config type could not be determined", file |-> file]
    ELSE IF ~force /\ file.kind # "absent"
    THEN [err |-> "Config File Already Exists", file |-> file]
    ELSE IF io # "ok" THEN [err |-> "open config file", file |-> file]
    ELSE [err |-> Nil, file |-> JsonFile(AllSettings(v))]

(* viper.WriteConfig *)
WriteConfig(v, file, io) ==
    LET filename == getConfigFile(v, file)
    IN  IF filename = ""
        THEN [err |-> ConfigFileNotFoundError, file |-> file, v |-> v]
        ELSE LET w == writeConfig(v, "json", TRUE, file, io)
             IN  [err |-> w.err, file |-> w.file, v |-> [v EXCEPT !.configFile = filename]]

(* viper.SafeWriteConfig: writes <configPaths[0]>/<configName>.<configType> *)
SafeWriteConfig(v, file, io) ==
    IF v.configPaths = << >>
    THEN [err |-> "missing configuration for 'configPath'", file |-> file]
    ELSE writeConfig(v, v.configType, FALSE, file, io)

(* StoreConfigStrategy.Execute: [err, file, v] *)
StoreConfigExecute(ConfigKey, ConfigValue, v, file, io) ==
    LET set == [v EXCEPT !.override = Put(@, ToLower(ConfigKey), ConfigValue)]
        w == WriteConfig(set, file, io)
    IN  IF w.err = Nil THEN [err |-> Nil, file |-> w.file, v |-> w.v]
        ELSE IF w.err = ConfigFileNotFoundError
        THEN LET s == SafeWriteConfig(set, file, io)
             IN  [err |-> s.err, file |-> s.file, v |-> set]
        ELSE [err |-> w.err, file |-> w.file, v |-> w.v]

(* initConfig as main calls it: config name and search path, no type; a   *)
(* missing file is reported and the defaults are used.                     *)
initConfig(file) ==
    LET v == [NewViper EXCEPT !.configPaths = <<".">>]
    IN  [err |-> Nil, file |-> file, v |-> ReadInConfig(v, file).v]

(* initConfig of the revision that sets the type "json" and creates a      *)
(* missing file; a failure to create it ends the process.                  *)
initConfigJson(file, io) ==
    LET v == [NewViper EXCEPT !.configPaths = <<".">>, !.configType = "json"]
        r == ReadInConfig(v, file)
    IN  IF r.err = Nil THEN [err |-> Nil, file |-> file, v |-> r.v]
        ELSE LET s == SafeWriteConfig(v, file, io)
             IN  [err |-> s.err, file |-> s.file, v |-> v]

----------------------------------------------------------------------------
(* The state machine *)

Init ==
    /\ secretsFile = AbsentFile
    /\ workflowsFile = JsonFile([n \in {"ci"} |-> "c1"])
    /\ reposFile = AbsentFile
    /\ accepted = {}
    /\ delivered = {}
    /\ now = 0
    /\ ops = 0
    /\ batch = Idle
    /\ last = [op |-> "none"]
    /\ config = NoConfig

(* time passes *)
Tick ==
    /\ last.op = "none" \/ batch.pc # "idle"
    /\ now + 1 \in Instants
    /\ now' = now + 1
    /\ UNCHANGED <<secretsFile, workflowsFile, reposFile, accepted, delivered, ops, batch, last, config>>

(* GHMImpl.AddSecret, called by the add-secret command or the TUI *)
AddSecret(repo, secretName, secretValue, env) ==
    /\ batch.pc = "idle"
    /\ last.op = "none"
    /\ ops < MaxOps
    /\ LET res == AddSecretExecute(repo, secretName, secretValue, env, secretsFile)
       IN  /\ secretsFile' = res.file
           /\ accepted' = IF RemoteAccepts(res, env)
                          THEN accepted \cup {<<repo, secretName>>}
                          ELSE accepted
           /\ last' = [op |-> "AddSecret", via |-> "direct", repo |-> repo,
                       name |-> secretName, value |-> secretValue, res |-> res,
                       before |-> secretsFile, reposBefore |-> reposFile,
                       key |-> FetchedKey(res, env), prevKey |-> NilPublicKey]
    /\ ops' = ops + 1
    /\ UNCHANGED <<workflowsFile, reposFile, delivered, now, batch, config>>

(* GHMImpl.AddWorkflow, called by the add-workflow command or the TUI *)
AddWorkflow(repo, workflowName, content, env) ==
    /\ batch.pc = "idle"
    /\ last.op = "none"
    /\ ops < MaxOps
    /\ LET res == AddWorkflowExecute(repo, workflowName, content, env)
       IN  /\ delivered' = IF PushDelivers(res, env)
                           THEN delivered \cup {<<repo, workflowName>>}
                           ELSE delivered
           /\ last' = [op |-> "AddWorkflow", via |-> "direct", repo |-> repo,
                       name |-> workflowName, value |-> content, res |-> res,
                       push |-> env.push, before |-> secretsFile,
                       reposBefore |-> reposFile]
    /\ ops' = ops + 1
    /\ UNCHANGED <<secretsFile, workflowsFile, reposFile, accepted, now, batch, config>>

(* The caller of a batch operation loads repos.json and enters the loop of *)
(* AddSecretsToRepo (kind "secrets") or AddWorkflowsToRepo ("workflows").  *)
BatchBegin(kind, targetRepo, names) ==
    /\ batch.pc = "idle"
    /\ last.op = "none"
    /\ ops < MaxOps
    /\ LET load == LoadReposConfig(reposFile)
       IN  /\ load.err = Nil
           /\ reposFile' = load.file
           /\ batch' = [pc |-> kind, repo |-> targetRepo, names |-> names, i |-> 1,
                        cfg |-> load.cfg, base |-> load.cfg, attempted |-> << >>,
                        succeeded |-> << >>, failed |-> FALSE]
    /\ ops' = ops + 1
    /\ last' = [op |-> "BatchBegin"]
    /\ UNCHANGED <<secretsFile, workflowsFile, accepted, delivered, now, config>>

(* One pass of the loop of AddSecretsToRepo *)
BatchSecretItem(lookupIo, env) ==
    /\ batch.pc = "secrets"
    /\ batch.i <= Len(batch.names)
    /\ LET secretName == batch.names[batch.i]
           it == secretItem(batch.repo, secretName, batch.cfg, secretsFile, lookupIo, env, now)
       IN  /\ secretsFile' = it.file
           /\ accepted' = IF it.ran /\ RemoteAccepts(it.res, env)
                          THEN accepted \cup {<<batch.repo, secretName>>}
                          ELSE accepted
           /\ batch' = [batch EXCEPT !.i = nextItem(batch.i, batch.names, it.err),
                                     !.cfg = it.cfg,
                                     !.attempted = Append(@, secretName),
                                     !.succeeded = IF it.ran /\ RemoteAccepts(it.res, env)
                                                      /\ it.res.err = Nil
                                                   THEN Append(@, secretName) ELSE @,
                                     !.failed = @ \/ it.err # Nil]
           /\ last' = [op |-> IF it.ran THEN "AddSecret" ELSE "lookup", via |-> "batch",
                       repo |-> batch.repo, name |-> secretName, value |-> it.value,
                       res |-> it.res, before |-> secretsFile, reposBefore |-> reposFile,
                       key |-> FetchedKey(it.res, env),
                       prevKey |-> IF last.op = "AddSecret" /\ last.via = "batch"
                                   THEN last.key ELSE NilPublicKey]
    /\ UNCHANGED <<workflowsFile, reposFile, delivered, now, ops, config>>

(* One pass of the loop of AddWorkflowsToRepo *)
BatchWorkflowItem(lookupIo, env) ==
    /\ batch.pc = "workflows"
    /\ batch.i <= Len(batch.names)
    /\ LET workflowName == batch.names[batch.i]
           it == workflowItem(batch.repo, workflowName, batch.cfg, workflowsFile, lookupIo,
                              env, now)
       IN  /\ delivered' = IF it.ran /\ PushDelivers(it.res, env)
                           THEN delivered \cup {<<batch.repo, workflowName>>}
                           ELSE delivered
           /\ batch' = [batch EXCEPT !.i = nextItem(batch.i, batch.names, it.err),
                                     !.cfg = it.cfg,
                                     !.attempted = Append(@, workflowName),
                                     !.succeeded = IF it.ran /\ PushDelivers(it.res, env)
                                                   THEN Append(@, workflowName) ELSE @,
                                     !.failed = @ \/ it.err # Nil]
           /\ last' = [op |-> IF it.ran THEN "AddWorkflow" ELSE "lookup", via |-> "batch",
                       repo |-> batch.repo, name |-> workflowName, value |-> it.value,
                       res |-> it.res, push |-> env.push, before |-> secretsFile,
                       reposBefore |-> reposFile]
    /\ UNCHANGED <<secretsFile, workflowsFile, reposFile, accepted, now, ops, config>>

(* The loop is over: the batch operation returns and its caller saves      *)
(* repos.json.                                                             *)
BatchEnd ==
    /\ batch.pc \in {"secrets", "workflows"}
    /\ batch.i > Len(batch.names)
    /\ reposFile' = IF batchReturn(batch.failed) = Nil
                    THEN SaveReposConfig(batch.cfg)
                    ELSE reposFile
    /\ last' = [op |-> "Batch", kind |-> batch.pc, repo |-> batch.repo,
                names |-> batch.names, err |-> batchReturn(batch.failed),
                attempted |-> batch.attempted, succeeded |-> batch.succeeded,
                failed |-> batch.failed, base |-> batch.base, cfg |-> batch.cfg]
    /\ batch' = Idle
    /\ UNCHANGED <<secretsFile, workflowsFile, accepted, delivered, now, ops, config>>

(* The command is over: the process exits (or the TUI returns to its menu) *)
(* and the next command starts afresh.                                     *)
Exit ==
    /\ batch.pc = "idle"
    /\ last.op # "none"
    /\ last' = [op |-> "none"]
    /\ UNCHANGED <<secretsFile, workflowsFile, reposFile, accepted, delivered, now, ops, batch, config>>

Next ==
    \/ Tick
    \/ Exit
    \/ \E repo \in RepoInputs, n \in SecretNames, v \in SecretValues :
          \E env \in SecretEnvsFor(repo, n) : AddSecret(repo, n, v, env)
    \/ \E repo \in RepoInputs, n \in WorkflowNames, c \in WorkflowContents :
          \E env \in WorkflowEnvsFor(repo, n) : AddWorkflow(repo, n, c, env)
    \/ \E repo \in BatchRepoInputs, names \in SeqsUpTo(BatchSecretNames, MaxBatch) :
          BatchBegin("secrets", repo, names)
    \/ \E repo \in BatchRepoInputs, names \in SeqsUpTo(BatchWorkflowNames, MaxBatch) :
          BatchBegin("workflows", repo, names)
    \/ \E c \in BatchSecretEnvsFor(batch.repo) : BatchSecretItem(c[1], c[2])
    \/ \E c \in BatchWorkflowEnvsFor(batch.repo) : BatchWorkflowItem(c[1], c[2])
    \/ BatchEnd

Spec == Init /\ [][Next]_vars

----------------------------------------------------------------------------
(* The Encryptor on its own: Encrypt applied to every class of key *)

EncryptKeys ==
    {NilPublicKey} \cup {PublicKey(id, k) : id \in KeyIDs, k \in KeyStrings \cup {Nil}}

(* EncryptorImpl.Encrypt, called through the Encryptor interface *)
EncryptCall(secretValue, publicKey, rnd) ==
    /\ last' = [op |-> "Encrypt", value |-> secretValue, key |-> publicKey, rnd |-> rnd,
                res |-> Encrypt(secretValue, publicKey, rnd)]
    /\ UNCHANGED <<secretsFile, workflowsFile, reposFile, accepted, delivered, now, ops, batch, config>>

NextEncrypt ==
    \E secretValue \in SecretValues \cup {""}, publicKey \in EncryptKeys, rnd \in {"ok", "err"} :
        EncryptCall(secretValue, publicKey, rnd)

SpecEncrypt == Init /\ [][NextEncrypt]_vars

----------------------------------------------------------------------------
(* Properties *)

Has(seq, x) == \E i \in 1..Len(seq) : seq[i] = x

Times(seq, x) == Cardinality({i \in 1..Len(seq) : seq[i] = x})

IsPipelineRun == last.op \in {"AddSecret", "AddWorkflow"}

(* C1: when a run of AddSecret fails (validation, key fetch, nil KeyID,    *)
(* encryption or the remote create-or-update), secrets.json is exactly     *)
(* what it was before the call; the Persisting step (saveSecretLocally) is *)
(* reached only after CreateOrUpdateRepoSecret was called and the remote   *)
(* accepted it.                                                            *)
C1_FailureLeavesStoreUnchanged ==
    last.op = "AddSecret" =>
        /\ last.res.err # Nil =>
              /\ secretsFile = last.before
              /\ ~Has(last.res.stages, "Persisting")
        /\ (Has(last.res.stages, "Persisting") \/ secretsFile # last.before) =>
              /\ last.res.err = Nil
              /\ Has(last.res.calls, "CreateOrUpdateRepoSecret")
              /\ <<last.repo, last.name>> \in accepted
              /\ last.res.stages[Len(last.res.stages)] = "Persisting"

(* a create-or-update the remote refused, with a store the save would have *)
(* changed                                                                 *)
C1_UpsertFailedWitness ==
    /\ last.op = "AddSecret"
    /\ last.res.err = "CreateOrUpdateRepoSecret failed"
    /\ last.before.kind = "json"
    /\ last.name \notin DOMAIN last.before.data

(* C2: whenever AddSecret returns nil, secrets.json afterwards maps the    *)
(* secret's name to its value, whatever the file held and whatever the     *)
(* file system did.                                                        *)
C2_SuccessStoresSecret ==
    (last.op = "AddSecret" /\ last.res.err = Nil) =>
        /\ secretsFile.kind = "json"
        /\ last.name \in DOMAIN secretsFile.data
        /\ secretsFile.data[last.name] = last.value

(* C3: after a successful direct AddSecret, repos.json holds a record of   *)
(* the repository whose Secrets list contains the name and whose           *)
(* LastUpdate is the time of the call.                                     *)
C3_DirectSuccessRecorded ==
    (last.op = "AddSecret" /\ last.via = "direct" /\ last.res.err = Nil) =>
        /\ reposFile.kind = "json"
        /\ last.repo \in DOMAIN DecodeReposConfig(reposFile.data)
        /\ Has(DecodeReposConfig(reposFile.data)[last.repo].Secrets, last.name)
        /\ DecodeReposConfig(reposFile.data)[last.repo].LastUpdate = now

RecordsBehindRemote(reposConfig) ==
    \A r \in DOMAIN reposConfig :
        /\ \A i \in 1..Len(reposConfig[r].Secrets) :
              <<r, reposConfig[r].Secrets[i]>> \in accepted
        /\ \A i \in 1..Len(reposConfig[r].Workflows) :
              <<r, reposConfig[r].Workflows[i]>> \in delivered

(* C4: in every reachable state every name in a record's Secrets list was  *)
(* accepted by a create-or-update on that repository and every name in its *)
(* Workflows list was delivered by a push to it (ok or already up to       *)
(* date); this holds of repos.json and of the reposConfig a running batch  *)
(* holds in memory.                                                        *)
C4_RecordsNeverAheadOfRemote ==
    /\ reposFile.kind = "json" => RecordsBehindRemote(DecodeReposConfig(reposFile.data))
    /\ batch.pc # "idle" => RecordsBehindRemote(batch.cfg)

(* a saved record with a workflow in it, from a batch in which an item     *)
(* failed                                                                  *)
C4_RecordAfterFailuresWitness ==
    /\ last.op = "Batch"
    /\ last.failed
    /\ reposFile.kind = "json"
    /\ \E r \in DOMAIN DecodeReposConfig(reposFile.data) :
          Len(DecodeReposConfig(reposFile.data)[r].Workflows) > 0

(* C5: in both pipelines a repository string that does not split on "/"    *)
(* into exactly two segments fails with the invalid-format error, with no  *)
(* remote call made, no temporary directory or file written, and           *)
(* secrets.json and repos.json as they were.                               *)
C5_InvalidFormatHasNoEffect ==
    (IsPipelineRun /\ Len(Split(last.repo)) # 2) =>
        /\ last.res.err = "invalid repository format"
        /\ last.res.stages = <<"Validating">>
        /\ last.res.calls = << >>
        /\ last.op = "AddWorkflow" => last.res.fsops = << >>
        /\ secretsFile = last.before
        /\ reposFile = last.reposBefore

(* a workflow pipeline run on a repository string with two slashes *)
C5_TwoSlashWorkflowWitness ==
    /\ last.op = "AddWorkflow"
    /\ Len(Split(last.repo)) = 3
    /\ last.res.err = "invalid repository format"

MissingField ==
    \/ \E i \in 1..Len(Split(last.repo)) : Split(last.repo)[i] = << >>
    \/ last.name = ""
    \/ last.op = "AddWorkflow" /\ last.value = ""

(* C6: a pipeline run on an input with a missing field (an empty owner or  *)
(* name segment, an empty secret or workflow name, empty workflow content) *)
(* fails in the Validating step, with no remote call and no disk access.   *)
C6_MissingFieldRejectedInValidating ==
    (IsPipelineRun /\ MissingField) =>
        /\ last.res.err # Nil
        /\ last.res.stages = <<"Validating">>
        /\ last.res.calls = << >>
        /\ last.op = "AddWorkflow" => last.res.fsops = << >>
        /\ secretsFile = last.before

InvalidKeyErrors == {"invalid public key provided", "failed to decode public key"}

UnsupportedKeyFormatErrors ==
    {"failed to parse RSA public key", "public key is not an RSA public key"}

(* C7: Encrypt fails at the key check or the decoding step for an absent,  *)
(* empty or non-base64 key; it fails as an unsupported key format for a    *)
(* decodable key that is neither 32 bytes nor an RSA key; it returns no    *)
(* ciphertext with an error.                                               *)
C7_KeyClassification ==
    last.op = "Encrypt" =>
        LET key == last.key
            absent == key.isNil \/ key.Key = Nil
            dec == Base64Decode(key.Key)
            rsa == \/ ParsePKIXPublicKey(dec.bytes).type = "rsa"
                   \/ /\ ParsePKIXPublicKey(dec.bytes).err # Nil
                      /\ ParsePKCS1PublicKey(dec.bytes).type = "rsa"
        IN  /\ (absent \/ key.Key = "" \/ dec.err # Nil) =>
                  last.res.err \in InvalidKeyErrors
            /\ (~absent /\ key.Key # "" /\ dec.err = Nil /\ dec.bytes.len # NaClKeyLen /\ ~rsa) =>
                  last.res.err \in UnsupportedKeyFormatErrors
            /\ last.res.err # Nil => last.res.ct = NoCipher

(* C8: a batch operation attempts every name of its list once, in list     *)
(* order, whatever failed before, and returns nil.                         *)
C8_BatchNeverAborts ==
    /\ batch.pc # "idle" =>
          /\ batch.i = Len(batch.attempted) + 1
          /\ batch.i <= Len(batch.names) + 1
          /\ batch.attempted = SubSeq(batch.names, 1, batch.i - 1)
    /\ last.op = "Batch" =>
          /\ last.err = Nil
          /\ last.attempted = last.names

(* a finished batch whose first item failed and whose second succeeded *)
C8_FailureThenSuccessWitness ==
    /\ last.op = "Batch"
    /\ last.failed
    /\ Len(last.names) = 2
    /\ last.succeeded = <<last.names[2]>>
    /\ last.names[1] # last.names[2]

ListOf(reposConfig, repo, kind) ==
    IF repo \notin DOMAIN reposConfig THEN << >>
    ELSE IF kind = "secrets" THEN reposConfig[repo].Secrets
    ELSE reposConfig[repo].Workflows

OtherKind(kind) == IF kind = "secrets" THEN "workflows" ELSE "secrets"

(* C9: the names a batch appends to the repository's record are the names  *)
(* whose lookup and publish both succeeded, in input order; nothing is     *)
(* appended for a name that is missing from the store; the record's other  *)
(* list and the other records are untouched.                               *)
C9_BatchAppendsSucceeded ==
    /\ batch.pc # "idle" =>
          /\ ListOf(batch.cfg, batch.repo, batch.pc)
                = ListOf(batch.base, batch.repo, batch.pc) \o batch.succeeded
          /\ ListOf(batch.cfg, batch.repo, OtherKind(batch.pc))
                = ListOf(batch.base, batch.repo, OtherKind(batch.pc))
          /\ \A r \in DOMAIN batch.base : r # batch.repo => batch.cfg[r] = batch.base[r]
          /\ DOMAIN batch.cfg \subseteq DOMAIN batch.base \cup {batch.repo}
    /\ last.op = "Batch" =>
          /\ ListOf(last.cfg, last.repo, last.kind)
                = ListOf(last.base, last.repo, last.kind) \o last.succeeded

(* the batch [A, B] with A in the store and B missing from it: the record  *)
(* gains only A                                                            *)
C9_ValidThenMissingWitness ==
    /\ last.op = "Batch"
    /\ last.kind = "secrets"
    /\ last.names = <<"A", "B">>
    /\ last.succeeded = <<"A">>
    /\ secretsFile.kind = "json"
    /\ "B" \notin DOMAIN secretsFile.data

(* C10: when AddWorkflow reaches the push, it pushes once; a push that     *)
(* reports already-up-to-date makes Execute return nil, and in a batch the *)
(* name is then appended to the record; any other push error is returned.  *)
C10_AlreadyUpToDateIsSuccess ==
    (last.op = "AddWorkflow" /\ Has(last.res.calls, "Push")) =>
        /\ Times(last.res.calls, "Push") = 1
        /\ last.push \in {Nil, NoErrAlreadyUpToDate} => last.res.err = Nil
        /\ last.push \notin {Nil, NoErrAlreadyUpToDate} => last.res.err = last.push
        /\ (last.via = "batch" /\ last.push = NoErrAlreadyUpToDate) =>
              LET l == ListOf(batch.cfg, batch.repo, "workflows")
              IN  /\ l # << >>
                  /\ l[Len(l)] = last.name

(* a batch item whose push reported already-up-to-date *)
C10_BatchUpToDateWitness ==
    /\ last.op = "AddWorkflow"
    /\ last.via = "batch"
    /\ Has(last.res.calls, "Push")
    /\ last.push = NoErrAlreadyUpToDate

(* The temporary directories a run created and has not removed *)
LiveTempDirs(fsops) ==
    {i \in 1..Len(fsops) :
        /\ fsops[i] = "TempDir"
        /\ ~\E j \in (i + 1)..Len(fsops) : fsops[j] = "RemoveAll"}

(* C11: when AddWorkflow's Execute has returned, on success and on every   *)
(* failure (clone, worktree, mkdir, write, add, commit, push), no          *)
(* temporary directory the call created still exists.                      *)
C11_TempDirRemovedOnEveryExit ==
    last.op = "AddWorkflow" =>
        /\ LiveTempDirs(last.res.fsops) = {}
        /\ Times(last.res.fsops, "TempDir") <= 1
        /\ Times(last.res.fsops, "RemoveAll") = Times(last.res.fsops, "TempDir")

(* a run that failed at the commit, after the clone and the file write *)
C11_MidPipelineFailureWitness ==
    /\ last.op = "AddWorkflow"
    /\ last.res.err = "commit failed"
    /\ Has(last.res.fsops, "TempDir")
    /\ Has(last.res.fsops, "WriteFile")

----------------------------------------------------------------------------
(* The local state store on its own: the load and save functions applied   *)
(* to every condition of their backing files                               *)

StoreSecretFiles ==
    {AbsentFile, CorruptFile, JsonFile(EmptyMap), JsonFile([n \in {"A"} |-> "v1"]),
     JsonFile([n \in {"A", "B"} |-> "v2"])}

StoreWorkflowFiles == {AbsentFile, JsonFile([n \in {"ci"} |-> "c1"])}

RepoConfigValues ==
    {RepoConfig(<< >>, << >>, 0), RepoConfig(<<"A", "A">>, << >>, 0),
     RepoConfig(<<"A">>, <<"ci">>, 1), RepoConfig(<< >>, <<"ci", "cd">>, 1)}

ReposConfigValues == UNION {[S -> RepoConfigValues] : S \in SUBSET {RepoA, RepoB}}

InitStore ==
    /\ secretsFile \in StoreSecretFiles
    /\ workflowsFile \in StoreWorkflowFiles
    /\ reposFile \in {AbsentFile, CorruptFile}
    /\ accepted = {}
    /\ delivered = {}
    /\ now = 0
    /\ ops = 0
    /\ batch = Idle
    /\ last = [op |-> "none"]
    /\ config = NoConfig

(* What a load remembers of the call before it *)
PrevCall ==
    [op |-> last.op,
     cfg |-> IF last.op \in {"LoadReposConfig", "SaveReposConfig"} THEN last.cfg ELSE EmptyRepos,
     created |-> IF last.op = "LoadReposConfig" THEN last.created ELSE FALSE,
     before |-> IF last.op = "SaveReposConfig" THEN last.before ELSE AbsentFile]

CallLoadReposConfig ==
    /\ LET load == LoadReposConfig(reposFile)
       IN  /\ reposFile' = load.file
           /\ last' = [op |-> "LoadReposConfig", before |-> reposFile, cfg |-> load.cfg,
                       err |-> load.err, created |-> reposFile.kind = "absent",
                       prev |-> PrevCall]
    /\ UNCHANGED <<secretsFile, workflowsFile, accepted, delivered, now, ops, batch, config>>

CallSaveReposConfig(reposConfig) ==
    /\ reposFile' = SaveReposConfig(reposConfig)
    /\ last' = [op |-> "SaveReposConfig", before |-> reposFile, cfg |-> reposConfig]
    /\ UNCHANGED <<secretsFile, workflowsFile, accepted, delivered, now, ops, batch, config>>

CallLoadSavedSecrets(io) ==
    /\ LET load == loadSavedSecrets(secretsFile, io)
       IN  /\ secretsFile' = load.file
           /\ last' = [op |-> "loadSavedSecrets", before |-> secretsFile,
                       names |-> load.names, err |-> load.err]
    /\ UNCHANGED <<workflowsFile, reposFile, accepted, delivered, now, ops, batch, config>>

CallLoadSavedWorkflows(io) ==
    /\ LET load == loadSavedWorkflows(workflowsFile, io)
       IN  /\ workflowsFile' = load.file
           /\ last' = [op |-> "loadSavedWorkflows", before |-> workflowsFile,
                       names |-> load.names, err |-> load.err]
    /\ UNCHANGED <<secretsFile, reposFile, accepted, delivered, now, ops, batch, config>>

CallSaveSecretLocally(secretName, secretValue, io) ==
    /\ secretsFile' = saveSecretLocally(secretName, secretValue, secretsFile, io)
    /\ last' = [op |-> "saveSecretLocally", before |-> secretsFile, name |-> secretName,
                value |-> secretValue, io |-> io]
    /\ UNCHANGED <<workflowsFile, reposFile, accepted, delivered, now, ops, batch, config>>

NextStore ==
    \/ CallLoadReposConfig
    \/ \E reposConfig \in ReposConfigValues : CallSaveReposConfig(reposConfig)
    \/ \E io \in {"ok", "open"} : CallLoadSavedSecrets(io)
    \/ \E io \in {"ok", "open"} : CallLoadSavedWorkflows(io)
    \/ \E secretName \in {"A", "B"}, secretValue \in SecretValues, io \in SaveIo :
          CallSaveSecretLocally(secretName, secretValue, io)

SpecStore == InitStore /\ [][NextStore]_vars

(* C12: for each of the three collections, loading when the backing file   *)
(* does not exist returns no error and an empty collection and leaves the  *)
(* file holding the empty structure; a load right after that returns the   *)
(* same empty collection, without error and without creating the file      *)
(* again.                                                                  *)
C12_LoadOfMissingFileCreatesEmpty ==
    /\ last.op = "LoadReposConfig" =>
          /\ last.before.kind = "absent" =>
                /\ last.err = Nil
                /\ last.cfg = EmptyRepos
                /\ reposFile = JsonFile(EncodeReposConfig(EmptyRepos))
          /\ (last.prev.op = "LoadReposConfig" /\ last.prev.created) =>
                /\ last.err = Nil
                /\ last.cfg = EmptyRepos
                /\ ~last.created
    /\ (last.op = "loadSavedSecrets" /\ last.before.kind = "absent") =>
          /\ last.err = Nil
          /\ last.names = {}
          /\ secretsFile = JsonFile(EmptyMap)
    /\ (last.op = "loadSavedWorkflows" /\ last.before.kind = "absent") =>
          /\ last.err = Nil
          /\ last.names = {}
          /\ workflowsFile = JsonFile(EmptyMap)

PersistFailed ==
    /\ last.op = "AddSecret"
    /\ Has(last.res.stages, "Persisting")
    /\ \/ last.before.kind = "corrupt"
       \/ secretsFile # JsonFile(Put(last.before.data, last.name, last.value))

(* C14: when secrets.json cannot be read, decoded or written during the    *)
(* Persisting step, AddSecret returns an error.                            *)
C14_StoreFailureIsReported ==
    PersistFailed => last.res.err # Nil

(* C15: after saveSecretLocally(name, v), with the file system working,    *)
(* secrets.json holds the previous secrets with name mapped to v: every    *)
(* other secret keeps its value, none is removed and none is added; this   *)
(* for every prior condition of the file (absent, empty, holding secrets,  *)
(* undecodable).                                                           *)
C15_SaveOverwritesOneKey ==
    (last.op = "saveSecretLocally" /\ last.io = "ok") =>
        /\ secretsFile.kind = "json"
        /\ DOMAIN secretsFile.data = DOMAIN last.before.data \cup {last.name}
        /\ secretsFile.data[last.name] = last.value
        /\ \A n \in DOMAIN last.before.data \ {last.name} :
              secretsFile.data[n] = last.before.data[n]

----------------------------------------------------------------------------
(* The workflow pipeline on its own, with the working copy it writes to *)

(* A working copy: the directories and the files (path to content) in it *)
Tree(dirs, files) == [dirs |-> dirs, files |-> files]

WorkflowDir == ".github/workflows"

(* filepath.Join(workflowDir, a.WorkflowName): an empty name gives the     *)
(* directory itself                                                        *)
WorkflowPath(WorkflowName) ==
    IF WorkflowName = "" THEN WorkflowDir ELSE WorkflowDir \o "/" \o WorkflowName

(* What PlainClone leaves in the temporary directory: a repository without *)
(* workflows, with the directory only, or with earlier workflow files      *)
CloneTrees ==
    {Tree({}, EmptyMap),
     Tree({WorkflowDir}, EmptyMap),
     Tree({WorkflowDir}, [f \in {WorkflowPath("ci"), WorkflowPath("cd")} |-> "old"])}

MkdirAll(tree, dir) == [tree EXCEPT !.dirs = @ \cup {dir}]

(* ioutil.WriteFile with O_APPEND in place of O_TRUNC *)
WriteFileAppends(tree, path, content) ==
    [tree EXCEPT !.files = Put(@, path,
                               IF path \in DOMAIN tree.files
                               THEN tree.files[path] \o content ELSE content)]

(* ioutil.WriteFile: creates or truncates the file *)
WriteFile(tree, path, content) == [tree EXCEPT !.files = Put(@, path, content)]

(* The working copy as the steps of a run that produced res left it *)
WorkingCopy(clone, WorkflowName, Content, res) ==
    IF Has(res.fsops, "WriteFile")
    THEN WriteFile(MkdirAll(clone, WorkflowDir), WorkflowPath(WorkflowName), Content)
    ELSE IF Has(res.fsops, "MkdirAll") THEN MkdirAll(clone, WorkflowDir)
    ELSE clone

(* AddWorkflowStrategy.Execute on a repository whose clone is the tree     *)
(* clone                                                                   *)
CallAddWorkflowExecute(repo, workflowName, content, env, clone) ==
    /\ LET res == AddWorkflowExecute(repo, workflowName, content, env)
       IN  last' = [op |-> "AddWorkflow", via |-> "direct", repo |-> repo,
                    name |-> workflowName, value |-> content, res |-> res,
                    push |-> env.push, before |-> secretsFile, reposBefore |-> reposFile,
                    clone |-> clone,
                    tree |-> WorkingCopy(clone, workflowName, content, res)]
    /\ UNCHANGED <<secretsFile, workflowsFile, reposFile, accepted, delivered, now, ops, batch, config>>

NextWorkflow ==
    \E repo \in RepoInputs \cup {RepoB}, n \in WorkflowNames, c \in WorkflowContents :
        \E env \in WorkflowEnvsFor(repo, n), clone \in CloneTrees :
            CallAddWorkflowExecute(repo, n, c, env, clone)

SpecWorkflow == Init /\ [][NextWorkflow]_vars

----------------------------------------------------------------------------
(* The add-secret and add-workflow commands, run from the shell            *)

(* A flag that was not given keeps its default "". *)
NoRepoFlag == << >>

CmdRepoFlags == {NoRepoFlag, RepoA, RepoNoSlash}
CmdNameFlags == {"", "A"}
CmdValueFlags == {"", "v1"}
CmdContentFlags == {"", "c1"}
CmdFileFlags == {"", "f"}

(* What the terminal or the workflow file gives when it is read: Nil is a  *)
(* failed read, the text is as strings.TrimSpace leaves it.                *)
TypedValues == {Nil, "", "v1"}
ReadFileResults == {Nil, "c1"}

(* What a command's handler did: the error it returned, the message it     *)
(* reported itself, whether it started the pipeline, and the pipeline's    *)
(* result.                                                                 *)
CmdResult(err, said, ran, res) == [err |-> err, said |-> said, ran |-> ran, res |-> res]

CmdSecretEnvs ==
    {FetchFails, SecretEnv("ok", PublicKey("id1", "K32"), "ok", "ok", "ok"),
     SecretEnv("ok", PublicKey("id1", "K32"), "ok", "err", "ok")}

CmdWorkflowEnvs == {CloneFails, WorkflowEnv("none", Nil), WorkflowEnv("none", "push rejected")}

(* RunE of initAddSecretCmd, ending in GHMImpl.AddSecret *)
initAddSecretCmd(repo, secretName, secretValue, typed, env, file) ==
    LET notRun == SecretResult(Nil, << >>, << >>, NoRequest, file)
    IN  IF repo = NoRepoFlag
        THEN CmdResult("repository not specified", "Repository must be specified.",
                       FALSE, notRun)
        ELSE IF ~(\E i \in 1..Len(repo) : repo[i] = "/")
        THEN CmdResult("invalid repository format",
                       "Invalid repository format. Use 'owner/repo'.", FALSE, notRun)
        ELSE IF secretName = ""
        THEN CmdResult("secret name not provided", "Secret name must be provided.",
                       FALSE, notRun)
        ELSE IF secretValue = "" /\ typed = Nil
        THEN CmdResult("read password", "Error reading secret value", FALSE, notRun)
        ELSE LET value == IF secretValue = "" THEN typed ELSE secretValue
                 res == AddSecretExecute(repo, secretName, value, env, file)
             IN  CmdResult(res.err, Nil, TRUE, res)

(* RunE of initAddWorkflowCmd, ending in GHMImpl.AddWorkflow *)
initAddWorkflowCmd(repo, workflowName, workflowContent, workflowFile, read, env) ==
    LET notRun == WorkflowResult(Nil, << >>, << >>, << >>)
    IN  IF repo = NoRepoFlag
        THEN CmdResult("repository not specified", "Repository must be specified.",
                       FALSE, notRun)
        ELSE IF ~(\E i \in 1..Len(repo) : repo[i] = "/")
        THEN CmdResult("invalid repository format",
                       "Invalid repository format. Use 'owner/repo'.", FALSE, notRun)
        ELSE IF workflowName = ""
        THEN CmdResult("workflow name not provided", "Workflow name must be provided.",
                       FALSE, notRun)
        ELSE IF workflowContent = "" /\ workflowFile = ""
        THEN CmdResult("workflow content or file not provided",
                       "Either workflow content or workflow file must be provided.",
                       FALSE, notRun)
        ELSE IF workflowContent = "" /\ read = Nil
        THEN CmdResult("read file", "Error reading workflow file", FALSE, notRun)
        ELSE LET content == IF workflowContent = "" THEN read ELSE workflowContent
                 res == AddWorkflowExecute(repo, workflowName, content, env)
             IN  CmdResult(res.err, Nil, TRUE, res)

(* main: a command that returned an error ends the process with status 1 *)
mainExit(err) == IF err # Nil THEN 1 ELSE 0

(* The revision of the commands that drives the gh command line tool: its  *)
(* saveSecretLocally ignores a secrets.json it cannot open or decode.      *)
saveSecretLocallyGh(secretName, secretValue, file, io) ==
    LET secrets == IF file.kind = "json" /\ io # "open" THEN file.data ELSE EmptyMap
    IN  IF io = "create" THEN file
        ELSE IF io = "encode" THEN CorruptFile
        ELSE JsonFile(Put(secrets, secretName, secretValue))

(* AddSecretStrategy.Execute of that revision: gh secret set, then the    *)
(* local save; it returns nothing.  gh is "ok" or "err".                   *)
AddSecretExecuteGh(Repo, SecretName, SecretValue, gh, file, io) ==
    IF gh = "err"
    THEN SecretResult(Nil, << >>, <<"gh secret set">>, NoRequest, file)
    ELSE SecretResult(Nil, << >>, <<"gh secret set">>, NoRequest,
                      saveSecretLocallyGh(SecretName, SecretValue, file, io))

(* Run of initAddSecretCmd in that revision: the handler has no error to   *)
(* return, and a failed read of the prompt leaves the value empty.         *)
initAddSecretCmdGh(repo, secretName, secretValue, typed, gh, file, io) ==
    LET notRun == SecretResult(Nil, << >>, << >>, NoRequest, file)
    IN  IF repo = NoRepoFlag
        THEN CmdResult(Nil, "Repository must be specified.", FALSE, notRun)
        ELSE IF ~(\E i \in 1..Len(repo) : repo[i] = "/")
        THEN CmdResult(Nil, "Invalid repository format. Please use 'owner/repo'.",
                       FALSE, notRun)
        ELSE IF secretName = ""
        THEN CmdResult(Nil, "Secret name must be provided.", FALSE, notRun)
        ELSE LET value == IF secretValue # "" THEN secretValue
                          ELSE IF typed = Nil THEN "" ELSE typed
             IN  CmdResult(Nil, Nil, TRUE,
                           AddSecretExecuteGh(repo, secretName, value, gh, file, io))

RunAddSecretCmd(repo, secretName, secretValue, typed, env) ==
    /\ LET out == initAddSecretCmd(repo, secretName, secretValue, typed, env, secretsFile)
       IN  /\ secretsFile' = out.res.file
           /\ accepted' = IF out.ran /\ RemoteAccepts(out.res, env)
                          THEN accepted \cup {<<repo, secretName>>}
                          ELSE accepted
           /\ last' = [op |-> "add-secret", repo |-> repo, name |-> secretName,
                       out |-> out, exit |-> mainExit(out.err),
                       before |-> <<secretsFile, workflowsFile, reposFile>>]
    /\ UNCHANGED <<workflowsFile, reposFile, delivered, now, ops, batch, config>>

RunAddWorkflowCmd(repo, workflowName, workflowContent, workflowFile, read, env) ==
    /\ LET out == initAddWorkflowCmd(repo, workflowName, workflowContent, workflowFile,
                                     read, env)
       IN  /\ delivered' = IF out.ran /\ PushDelivers(out.res, env)
                           THEN delivered \cup {<<repo, workflowName>>}
                           ELSE delivered
           /\ last' = [op |-> "add-workflow", repo |-> repo, name |-> workflowName,
                       out |-> out, exit |-> mainExit(out.err),
                       before |-> <<secretsFile, workflowsFile, reposFile>>]
    /\ UNCHANGED <<secretsFile, workflowsFile, reposFile, accepted, now, ops, batch, config>>

RunAddSecretCmdGh(repo, secretName, secretValue, typed, gh, io) ==
    /\ LET out == initAddSecretCmdGh(repo, secretName, secretValue, typed, gh,
                                     secretsFile, io)
       IN  /\ secretsFile' = out.res.file
           /\ accepted' = IF out.ran /\ gh = "ok"
                          THEN accepted \cup {<<repo, secretName>>}
                          ELSE accepted
           /\ last' = [op |-> "add-secret", repo |-> repo, name |-> secretName,
                       out |-> out, exit |-> mainExit(out.err),
                       before |-> <<secretsFile, workflowsFile, reposFile>>]
    /\ UNCHANGED <<workflowsFile, reposFile, delivered, now, ops, batch, config>>

NextCmd ==
    \/ \E repo \in CmdRepoFlags, secretName \in CmdNameFlags, secretValue \in CmdValueFlags,
          typed \in TypedValues, env \in CmdSecretEnvs :
            RunAddSecretCmd(repo, secretName, secretValue, typed, env)
    \/ \E repo \in CmdRepoFlags, workflowName \in CmdNameFlags,
          workflowContent \in CmdContentFlags, workflowFile \in CmdFileFlags,
          read \in ReadFileResults, env \in CmdWorkflowEnvs :
            RunAddWorkflowCmd(repo, workflowName, workflowContent, workflowFile, read, env)
    \/ \E repo \in CmdRepoFlags, secretName \in CmdNameFlags, secretValue \in CmdValueFlags,
          typed \in TypedValues, gh \in {"ok", "err"}, io \in {"ok", "create", "encode"} :
            RunAddSecretCmdGh(repo, secretName, secretValue, typed, gh, io)

SpecCmd == Init /\ [][NextCmd]_vars

(* C17: whenever add-secret or add-workflow is run without a repository,   *)
(* the process ends with a non-zero status, the message reported is        *)
(* "Repository must be specified.", no pipeline is started, no remote call *)
(* is made and no local file is written.                                   *)
C17_NoRepositoryIsAnError ==
    (last.op \in {"add-secret", "add-workflow"} /\ last.repo = NoRepoFlag) =>
        /\ last.exit # 0
        /\ last.out.said = "Repository must be specified."
        /\ ~last.out.ran
        /\ last.out.res.calls = << >>
        /\ <<secretsFile, workflowsFile, reposFile>> = last.before

----------------------------------------------------------------------------
(* Processes that store and read the configuration *)

ConfigIo == {"ok", "err"}

(* main up to the command: initConfig of either revision *)
StartMain(typed, io) ==
    /\ ~config.up
    /\ LET r == IF typed THEN initConfigJson(config.file, io) ELSE initConfig(config.file)
       IN  /\ config' = [file |-> r.file, up |-> r.err = Nil,
                         viper |-> IF r.err = Nil THEN r.v ELSE NewViper]
           /\ last' = [op |-> "initConfig", err |-> r.err]
    /\ UNCHANGED <<secretsFile, workflowsFile, reposFile, accepted, delivered, now, ops, batch>>

(* A caller of the strategy that has not run initConfig, as the unit test *)
StartBare ==
    /\ ~config.up
    /\ config' = [config EXCEPT !.up = TRUE, !.viper = NewViper]
    /\ last' = [op |-> "start"]
    /\ UNCHANGED <<secretsFile, workflowsFile, reposFile, accepted, delivered, now, ops, batch>>

(* GHMImpl.StoreConfig *)
CallStoreConfig(key, value, io) ==
    /\ config.up
    /\ LET r == StoreConfigExecute(key, value, config.viper, config.file, io)
       IN  /\ config' = [file |-> r.file, up |-> TRUE, viper |-> r.v]
           /\ last' = [op |-> "StoreConfig", key |-> key, value |-> value, err |-> r.err,
                       before |-> config.file]
    /\ UNCHANGED <<secretsFile, workflowsFile, reposFile, accepted, delivered, now, ops, batch>>

(* viper.GetString(key) *)
CallGetString(key) ==
    /\ config.up
    /\ last' = [op |-> "GetString", key |-> key, value |-> GetString(key, config.viper)]
    /\ UNCHANGED <<secretsFile, workflowsFile, reposFile, accepted, delivered, now, ops, batch,
                   config>>

(* The process ends; what viper held in memory is gone. *)
ExitProcess ==
    /\ config.up
    /\ config' = [config EXCEPT !.up = FALSE, !.viper = NewViper]
    /\ last' = [op |-> "exit"]
    /\ UNCHANGED <<secretsFile, workflowsFile, reposFile, accepted, delivered, now, ops, batch>>

NextConfig ==
    \/ \E typed \in BOOLEAN, io \in ConfigIo : StartMain(typed, io)
    \/ StartBare
    \/ \E key \in ConfigKeys, value \in ConfigValues, io \in ConfigIo :
            CallStoreConfig(key, value, io)
    \/ \E key \in ConfigKeys : CallGetString(key)
    \/ ExitProcess

SpecConfig == Init /\ [][NextConfig]_vars

(* C18: after StoreConfig(key, value) returns success the configuration    *)
(* file maps key to value and a read of key returns value; and when no     *)
(* configuration file existed before the call, the call succeeds and the   *)
(* file is created.                                                        *)
C18_StoreConfigPersists ==
    last.op = "StoreConfig" =>
        /\ last.err = Nil =>
            /\ config.file.kind = "json"
            /\ ToLower(last.key) \in DOMAIN config.file.data
            /\ config.file.data[ToLower(last.key)] = last.value
            /\ GetString(last.key, config.viper) = last.value
        /\ last.before.kind = "absent" =>
            /\ last.err = Nil
            /\ config.file.kind = "json"

(* The stages of the secret pipeline, in order, and how a run ended *)
SecretStages == <<"Validating", "FetchingKey", "Encrypting", "Upserting", "Persisting">>

Outcome(res) == IF res.err = Nil THEN "Done" ELSE "Failed"

IsPrefix(s, t) == Len(s) <= Len(t) /\ s = SubSeq(t, 1, Len(s))

(* C19: every run of the secret pipeline enters its stages in the order    *)
(* Validating, FetchingKey, Encrypting, Upserting, Persisting and only     *)
(* after the earlier ones; it ends in Done only after Persisting; and a    *)
(* stage that fails, the Persisting step included, ends the run in Failed  *)
(* with no later stage entered.                                            *)
C19_StagesInOrder ==
    last.op = "AddSecret" =>
        /\ last.res.stages # << >>
        /\ IsPrefix(last.res.stages, SecretStages)
        /\ Outcome(last.res) = "Done" => last.res.stages = SecretStages
        /\ last.res.stages # SecretStages => Outcome(last.res) = "Failed"
        /\ PersistFailed => Outcome(last.res) = "Failed"

----------------------------------------------------------------------------
(* Secrets added while the remote's public key changes *)

(* Both secrets are in secrets.json, saved by earlier runs. *)
InitKey ==
    /\ secretsFile = JsonFile([n \in {"A", "B"} |-> IF n = "A" THEN "v1" ELSE "v2"])
    /\ workflowsFile = AbsentFile
    /\ reposFile = AbsentFile
    /\ accepted = {}
    /\ delivered = {}
    /\ now = 0
    /\ ops = 0
    /\ batch = Idle
    /\ last = [op |-> "none"]
    /\ config = NoConfig

(* The remote answers each fetch with the key it has at that moment. *)
KeyEnvs ==
    {FetchFails}
        \cup {SecretEnv("ok", k, "ok", up, "ok") :
                    k \in GoodKeys \cup {PublicKey(Nil, "K32")}, up \in {"ok", "err"}}

NextKey ==
    \/ Exit
    \/ \E n \in BatchSecretNames, v \in SecretValues, env \in KeyEnvs :
            AddSecret(RepoA, n, v, env)
    \/ \E names \in SeqsUpTo(BatchSecretNames, MaxBatch) : BatchBegin("secrets", RepoA, names)
    \/ \E env \in KeyEnvs : BatchSecretItem("ok", env)
    \/ BatchEnd

SpecKey == InitKey /\ [][NextKey]_vars

(* C20: every run of AddSecret that gets past validation fetches the       *)
(* public key once, and a create-or-update request it sends comes after    *)
(* that fetch and carries the KeyID and a ciphertext of the secret value   *)
(* sealed with the key which that fetch returned, also when the key        *)
(* differs from the one the item before it in the batch fetched.           *)
C20_KeyFetchedInSameCall ==
    last.op = "AddSecret" =>
        /\ Has(last.res.stages, "FetchingKey") =>
                Times(last.res.calls, "GetRepoPublicKey") = 1
        /\ Has(last.res.calls, "CreateOrUpdateRepoSecret") =>
            /\ last.res.calls = <<"GetRepoPublicKey", "CreateOrUpdateRepoSecret">>
            /\ last.key.KeyID # Nil
            /\ last.res.request.KeyID = last.key.KeyID
            /\ last.res.request.EncryptedValue.key = last.key.Key
            /\ last.res.request.EncryptedValue.pt = last.value

(* The second item of a batch is sent under another key than the first *)
C20_RotatedKeyWitness ==
    /\ last.op = "AddSecret"
    /\ last.via = "batch"
    /\ batch.i = 3
    /\ Len(batch.succeeded) = 2
    /\ last.prevKey \in GoodKeys
    /\ last.key \in GoodKeys
    /\ last.prevKey # last.key
    /\ last.res.request.KeyID = last.key.KeyID

----------------------------------------------------------------------------
(* One Execute against a remote that may fail *)

TrySecretEnvs == SecretEnvs

TryWorkflowEnvs == WorkflowEnvs

TryAddSecret(repo, secretName, secretValue, env) ==
    /\ LET res == AddSecretExecute(repo, secretName, secretValue, env, secretsFile)
       IN  /\ secretsFile' = res.file
           /\ accepted' = IF RemoteAccepts(res, env)
                          THEN accepted \cup {<<repo, secretName>>}
                          ELSE accepted
           /\ last' = [op |-> "TryAddSecret", repo |-> repo, name |-> secretName,
                       value |-> secretValue, env |-> env, res |-> res]
    /\ UNCHANGED <<workflowsFile, reposFile, delivered, now, ops, batch, config>>

TryAddWorkflow(repo, workflowName, content, env) ==
    /\ LET res == AddWorkflowExecute(repo, workflowName, content, env)
       IN  /\ delivered' = IF PushDelivers(res, env)
                           THEN delivered \cup {<<repo, workflowName>>}
                           ELSE delivered
           /\ last' = [op |-> "TryAddWorkflow", repo |-> repo, name |-> workflowName,
                       value |-> content, env |-> env, res |-> res]
    /\ UNCHANGED <<secretsFile, workflowsFile, reposFile, accepted, now, ops, batch, config>>

NextRemote ==
    \/ \E repo \in {RepoA, RepoNoSlash}, v \in SecretValues, env \in TrySecretEnvs :
            TryAddSecret(repo, "A", v, env)
    \/ \E repo \in {RepoA, RepoNoSlash}, env \in TryWorkflowEnvs :
            TryAddWorkflow(repo, "ci", "c1", env)

SpecRemote == Init /\ [][NextRemote]_vars

(* C21: one AddSecret run asks for the public key at most once and sends   *)
(* at most one create-or-update request, one AddWorkflow run clones at     *)
(* most once and pushes at most once; when one of these remote calls       *)
(* fails, no further remote call is made and the error returned is that    *)
(* call's error.                                                           *)
C21_RemoteFailureIsTerminal ==
    /\ last.op = "TryAddSecret" =>
        /\ Times(last.res.calls, "GetRepoPublicKey") <= 1
        /\ Times(last.res.calls, "CreateOrUpdateRepoSecret") <= 1
        /\ (Has(last.res.calls, "GetRepoPublicKey") /\ last.env.fetch # "ok") =>
            /\ last.res.err = "GetRepoPublicKey failed"
            /\ last.res.calls = <<"GetRepoPublicKey">>
        /\ (Has(last.res.calls, "CreateOrUpdateRepoSecret") /\ last.env.upsert # "ok") =>
            /\ last.res.err = "CreateOrUpdateRepoSecret failed"
            /\ last.res.calls = <<"GetRepoPublicKey", "CreateOrUpdateRepoSecret">>
    /\ last.op = "TryAddWorkflow" =>
        /\ Times(last.res.calls, "PlainClone") <= 1
        /\ Times(last.res.calls, "Push") <= 1
        /\ (Has(last.res.calls, "PlainClone") /\ last.env.failAt = "clone") =>
            /\ last.res.err = "clone failed"
            /\ last.res.calls = <<"PlainClone">>
        /\ (Has(last.res.calls, "Push") /\ PushFailed(last.env.push)) =>
            /\ last.res.err = last.env.push
            /\ last.res.calls = <<"PlainClone", "Push">>

(* A rejected push, made once, is what the run returns. *)
C21_PushRejectedWitness ==
    /\ last.op = "TryAddWorkflow"
    /\ last.env.push = "push rejected"
    /\ last.res.err = "push rejected"
    /\ Times(last.res.calls, "Push") = 1

----------------------------------------------------------------------------
(* The sealed box: golang.org/x/crypto/nacl/box *)

(* Curve25519 private keys, and the public half of each *)
PrivateKeys == {"s1", "s2", "s3"}

Pub(sk) == <<"pub", sk>>

PublicPoints == {Pub(sk) : sk \in PrivateKeys}

(* The key two parties share: box.Precompute(peersPublicKey, privateKey)   *)
(* gives the same key from either side.                                    *)
Precompute(peersPublicKey, privateKey) == {peersPublicKey[2], privateKey}

(* box.Seal and box.Open: opening succeeds with the nonce and the shared   *)
(* key the box was sealed with.                                            *)
Seal(message, nonce, peersPublicKey, privateKey) ==
    [pt |-> message, nonce |-> nonce, shared |-> Precompute(peersPublicKey, privateKey)]

Open(boxed, nonce, peersPublicKey, privateKey) ==
    IF boxed.nonce = nonce /\ boxed.shared = Precompute(peersPublicKey, privateKey)
    THEN [ok |-> TRUE, pt |-> boxed.pt]
    ELSE [ok |-> FALSE, pt |-> ""]

(* The nonce of an anonymous box: a hash of both public keys *)
SealNonce(ephemeralPub, recipientPub) == <<"blake2b", ephemeralPub, recipientPub>>

RandomNonces == {"n1", "n2"}

(* What crypto/rand gives in one call: the reads in order, or the read     *)
(* that fails.                                                             *)
RandReads ==
    [fail : {"none"}, first : PublicPoints, second : PrivateKeys, third : RandomNonces]
        \cup [fail : {"first", "second", "third"}, first : {Pub("s1")}, second : {"s1"},
              third : {"n1"}]

(* box.SealAnonymous: the output is the ephemeral public key followed by   *)
(* the box; the ephemeral key pair is generated from rand.                 *)
SealAnonymous(message, recipient, rnd) ==
    IF rnd.fail # "none" THEN [err |-> "rand", out |-> << >>]
    ELSE LET ephemeralPriv == rnd.second
             ephemeralPub == Pub(ephemeralPriv)
         IN  [err |-> Nil,
              out |-> <<ephemeralPub,
                        Seal(message, SealNonce(ephemeralPub, recipient), recipient,
                             ephemeralPriv)>>]

(* box.OpenAnonymous: the first 32 bytes are the ephemeral public key, the *)
(* rest is the box, opened under the derived nonce.                        *)
OpenAnonymous(out, publicKey, privateKey) ==
    IF Len(out) # 2 THEN [ok |-> FALSE, pt |-> ""]
    ELSE Open(out[2], SealNonce(out[1], publicKey), out[1], privateKey)

(* A recipient that reads the nonce from the output instead: ephemeral     *)
(* public key, nonce, box.                                                 *)
OpenWithNonce(out, publicKey, privateKey) ==
    IF Len(out) # 3 THEN [ok |-> FALSE, pt |-> ""]
    ELSE Open(out[3], out[2], out[1], privateKey)

(* The key string given to the encryptor, by what base64 decoding makes of *)
(* it: not base64, 32 bytes that are a public key, or another length.      *)
SealKeyInputs ==
    {[b64 |-> FALSE, len |-> 0, pub |-> Pub("s1")], [b64 |-> TRUE, len |-> 16, pub |-> Pub("s1")]}
        \cup {[b64 |-> TRUE, len |-> 32, pub |-> p] : p \in PublicPoints}

(* EncryptSecret of encrypt.go *)
EncryptSecret(publicKey, secretValue, rnd) ==
    IF ~publicKey.b64 THEN [err |-> "failed to decode public key", out |-> << >>]
    ELSE IF publicKey.len # 32 THEN [err |-> "invalid public key length", out |-> << >>]
    ELSE IF rnd.fail = "first"
    THEN [err |-> "failed to generate ephemeral public key", out |-> << >>]
    ELSE IF rnd.fail = "second"
    THEN [err |-> "failed to generate ephemeral private key", out |-> << >>]
    ELSE IF rnd.fail = "third" THEN [err |-> "failed to generate nonce", out |-> << >>]
    ELSE LET ephPub == rnd.first
             ephPriv == rnd.second
             nonce == rnd.third
         IN  [err |-> Nil,
              out |-> <<ephPub, nonce, Seal(secretValue, nonce, publicKey.pub, ephPriv)>>]

(* encryptNaCl of ghm.go, with the sealed box in full.  Encrypt calls it   *)
(* for a key of 32 bytes only.                                             *)
encryptNaClSealed(secretValue, publicKey, rnd) ==
    LET sealed == SealAnonymous(secretValue, publicKey.pub, rnd)
    IN  IF sealed.err # Nil
        THEN [err |-> "failed to encrypt secret using NaCl", out |-> << >>]
        ELSE [err |-> Nil, out |-> sealed.out]

CallEncryptSecret(publicKey, secretValue, rnd) ==
    /\ last' = [op |-> "EncryptSecret", key |-> publicKey, value |-> secretValue,
                rnd |-> rnd, res |-> EncryptSecret(publicKey, secretValue, rnd)]
    /\ UNCHANGED <<secretsFile, workflowsFile, reposFile, accepted, delivered, now, ops, batch,
                   config>>

CallEncryptNaCl(publicKey, secretValue, rnd) ==
    /\ publicKey.b64 /\ publicKey.len = 32
    /\ last' = [op |-> "encryptNaCl", key |-> publicKey, value |-> secretValue,
                rnd |-> rnd, res |-> encryptNaClSealed(secretValue, publicKey, rnd)]
    /\ UNCHANGED <<secretsFile, workflowsFile, reposFile, accepted, delivered, now, ops, batch,
                   config>>

NextSeal ==
    \/ \E publicKey \in SealKeyInputs, secretValue \in SecretValues, rnd \in RandReads :
            CallEncryptSecret(publicKey, secretValue, rnd)
    \/ \E publicKey \in SealKeyInputs, secretValue \in SecretValues, rnd \in RandReads :
            CallEncryptNaCl(publicKey, secretValue, rnd)

SpecSeal == Init /\ [][NextSeal]_vars

(* C23: whenever the encryptor returns an output for a 32-byte public key, *)
(* the holder of the matching private key opens it to the plaintext as an  *)
(* anonymous sealed box: the ephemeral public key in the output is the     *)
(* public half of the ephemeral private key that sealed, and the nonce is  *)
(* the one the recipient derives, or reads from the output.                *)
C23_SealedBoxOpens ==
    (last.op \in {"EncryptSecret", "encryptNaCl"} /\ last.res.err = Nil) =>
        LET recipientPriv == last.key.pub[2]
            derived == OpenAnonymous(last.res.out, last.key.pub, recipientPriv)
            read == OpenWithNonce(last.res.out, last.key.pub, recipientPriv)
        IN  /\ last.key.len = 32
            /\ \/ derived.ok /\ derived.pt = last.value
               \/ read.ok /\ read.pt = last.value

----------------------------------------------------------------------------
(* The revision of AddWorkflowStrategy.Execute that runs the git command   *)
(* line tool in a directory that stays on disk                             *)

(* A git working copy: the committed files (head) and the files on disk *)
Copy(head, files) == [head |-> head, files |-> files]

WorkflowCi == WorkflowPath("ci")

CommittedTrees == {EmptyMap, [f \in {WorkflowCi} |-> "c1"]}

(* Working copies found on disk: clean, or with a file git does not track *)
Copies ==
    {Copy(h, h) : h \in CommittedTrees}
        \cup {Copy(h, Put(h, "notes.txt", "x")) : h \in CommittedTrees}

NoCopy == Copy(EmptyMap, EmptyMap)

(* The disk before a run: the base name of the working directory, whether  *)
(* a directory named as the repository is there, and the working copy in   *)
(* it (or in the working directory, when that is the repository).          *)
Local(cwd, exists, copy) == [cwd |-> cwd, exists |-> exists, copy |-> copy]

Locals ==
    {Local(<<"a">>, FALSE, c) : c \in Copies}
        \cup {Local(<<"w">>, TRUE, c) : c \in Copies}
        \cup {Local(<<"w">>, FALSE, NoCopy)}

(* What the world does during one run: the step that fails, and the tree   *)
(* the remote has.                                                         *)
GitSteps == <<"getwd", "clone", "mkdir", "write", "add", "commit", "push">>

GitEnv(failAt, remote) == [failAt |-> failAt, remote |-> remote]

GitEnvs ==
    {GitEnv(f, r) : f \in {"none"} \cup {GitSteps[i] : i \in 1..Len(GitSteps)},
                    r \in CommittedTrees}

(* RepoDirectory: the last part of the repository string *)
RepoDirectory(Repo) == Split(Repo)[Len(Split(Repo))]

(* git add . : every file that differs from what is committed *)
Changed(copy) ==
    {p \in DOMAIN copy.files : p \notin DOMAIN copy.head \/ copy.head[p] # copy.files[p]}

NoCommit == [paths |-> {}, message |-> "", author |-> ""]

GitResult(ok, said, cmds, cloned, staged, commit, pushed, copy, finishes) ==
    [ok |-> ok, said |-> said, cmds |-> cmds, cloned |-> cloned, staged |-> staged,
     commit |-> commit, pushed |-> pushed, copy |-> copy, finishes |-> finishes]

(* Execute: [ok, said, cmds, cloned, staged, commit, pushed, copy,         *)
(* finishes], finishes counting the calls of progress.Finish               *)
AddWorkflowExecuteGit(Repo, WorkflowPathName, Content, local, env) ==
    LET repoDir == RepoDirectory(Repo)
        inRepoDir == local.cwd = repoDir
        clones == ~inRepoDir /\ ~local.exists
        cmds0 == IF clones THEN <<"git clone">> ELSE << >>
        fin0 == IF inRepoDir THEN 0 ELSE 1
        copy0 == IF clones THEN Copy(env.remote, env.remote) ELSE local.copy
        copy1 == [copy0 EXCEPT !.files = Put(@, WorkflowPath(WorkflowPathName), Content)]
        staged == Changed(copy1)
        commit == [paths |-> staged, message |-> "Add new GitHub Actions workflow",
                   author |-> "git config user"]
        copy2 == Copy(copy1.files, copy1.files)
    IN  IF env.failAt = "getwd"
        THEN GitResult(FALSE, "Error getting current working directory", << >>, FALSE, {},
                       NoCommit, {}, local.copy, 0)
        ELSE IF clones /\ env.failAt = "clone"
        THEN GitResult(FALSE, "Error cloning repository", cmds0, FALSE, {}, NoCommit, {},
                       local.copy, 1)
        ELSE IF env.failAt = "mkdir"
        THEN GitResult(FALSE, "Error creating workflow directory", cmds0, clones, {},
                       NoCommit, {}, copy0, fin0)
        ELSE IF env.failAt = "write"
        THEN GitResult(FALSE, "Error writing workflow file", cmds0, clones, {}, NoCommit, {},
                       copy0, fin0)
        ELSE IF env.failAt = "add"
        THEN GitResult(FALSE, "Error running command 'git add .'",
                       Append(cmds0, "git add ."), clones, {}, NoCommit, {}, copy1, fin0 + 1)
        ELSE IF env.failAt = "commit" \/ staged = {}
        THEN GitResult(FALSE, "Error running command 'git commit'",
                       cmds0 \o <<"git add .", "git commit">>, clones, staged, NoCommit, {},
                       copy1, fin0 + 1)
        ELSE IF env.failAt = "push"
        THEN GitResult(FALSE, "Error running command 'git push'",
                       cmds0 \o <<"git add .", "git commit", "git push">>, clones, staged,
                       commit, {}, copy2, fin0 + 1)
        ELSE GitResult(TRUE, "Workflow added successfully",
                       cmds0 \o <<"git add .", "git commit", "git push">>, clones, staged,
                       commit, staged, copy2, fin0 + 1)

(* The same facts about a run of the go-git revision: it always clones     *)
(* into a fresh temporary directory, stages the one path it wrote, and     *)
(* commits with the signature and message written in the code.  go-git     *)
(* v5.4.2 makes a commit also when the tree is unchanged.                  *)
GoGitFacts(WorkflowName, res) ==
    LET staged == IF Has(res.stages, "Committing") /\ res.err # "add failed"
                  THEN {WorkflowPath(WorkflowName)} ELSE {}
        made == Has(res.calls, "Push") \/ res.err = "commitobj failed"
        commit == IF made
                  THEN [paths |-> staged, message |-> "Add GitHub Actions workflow",
                        author |-> "ghm <ghm@example.com>"]
                  ELSE NoCommit
    IN  [cloned |-> Has(res.calls, "PlainClone") /\ res.err # "clone failed",
         cloneCalled |-> Has(res.calls, "PlainClone"),
         staged |-> staged, commit |-> commit,
         pushed |-> IF Has(res.calls, "Push") /\ res.err = Nil THEN staged ELSE {}]

CallAddWorkflowExecuteGit(repo, workflowName, content, local, env) ==
    /\ LET res == AddWorkflowExecuteGit(repo, workflowName, content, local, env)
       IN  last' = [op |-> "AddWorkflowGit", repo |-> repo, name |-> workflowName,
                    value |-> content, local |-> local, env |-> env, res |-> res]
    /\ UNCHANGED <<secretsFile, workflowsFile, reposFile, accepted, delivered, now, ops, batch,
                   config>>

CallAddWorkflowExecuteGoGit(repo, workflowName, content, local, env) ==
    /\ LET res == AddWorkflowExecute(repo, workflowName, content, env)
       IN  last' = [op |-> "AddWorkflowGoGit", repo |-> repo, name |-> workflowName,
                    value |-> content, local |-> local, env |-> env, res |-> res,
                    facts |-> GoGitFacts(workflowName, res)]
    /\ UNCHANGED <<secretsFile, workflowsFile, reposFile, accepted, delivered, now, ops, batch,
                   config>>

NextGit ==
    \/ \E c \in {"c1", "c2"}, local \in Locals, env \in GitEnvs :
            CallAddWorkflowExecuteGit(RepoA, "ci", c, local, env)
    \/ \E c \in {"c1", "c2"}, local \in Locals, env \in WorkflowEnvs :
            CallAddWorkflowExecuteGoGit(RepoA, "ci", c, local, env)

SpecGit == Init /\ [][NextGit]_vars

(* The working copy a run of the git revision works on *)
CopyUsed ==
    IF last.res.cloned THEN Copy(last.env.remote, last.env.remote) ELSE last.local.copy

(* The content to write is what is committed already, and nothing else in  *)
(* the working copy differs from the commit                                *)
NoNetChange ==
    /\ WorkflowPath(last.name) \in DOMAIN CopyUsed.head
    /\ CopyUsed.head[WorkflowPath(last.name)] = last.value
    /\ CopyUsed.files = CopyUsed.head

(* C24: when the content written is identical to what is committed and no  *)
(* step fails for another reason, Execute does not fail at the commit: it  *)
(* goes on to push and reports success.                                    *)
C24_UnchangedCommitIsSuccess ==
    /\ (last.op = "AddWorkflowGit" /\ last.env.failAt = "none" /\ NoNetChange) =>
        /\ last.res.ok
        /\ Has(last.res.cmds, "git push")
    /\ (last.op = "AddWorkflowGoGit" /\ last.env.failAt = "none"
            /\ ~PushFailed(last.env.push)) =>
        /\ last.res.err = Nil
        /\ Has(last.res.stages, "Pushing")

(* C25: a run that gets to the Acquiring step clones exactly when the base *)
(* name of the working directory differs from the repository's short name  *)
(* and no local directory of that name exists; otherwise it works in place *)
(* or in the existing directory, without cloning.                          *)
C25_ClonesOnlyWhenNoLocalCopy ==
    LET mustClone == /\ last.local.cwd # RepoDirectory(last.repo)
                     /\ ~last.local.exists
    IN  /\ (last.op = "AddWorkflowGit" /\ last.env.failAt # "getwd") =>
                (Has(last.res.cmds, "git clone") <=> mustClone)
        /\ (last.op = "AddWorkflowGoGit" /\ last.env.failAt # "tempdir") =>
                (last.facts.cloneCalled <=> mustClone)

(* C26: a commit made by AddWorkflow holds exactly the written workflow    *)
(* file, no other modified or untracked file of the working copy is        *)
(* staged, committed or pushed, the message is "Add GitHub Actions         *)
(* workflow" and the author is the fixed identity.                         *)
C26_CommitHoldsOnlyTheWorkflow ==
    LET written == {WorkflowPath(last.name)}
        fixed(commit) == /\ commit.paths = written
                         /\ commit.message = "Add GitHub Actions workflow"
                         /\ commit.author = "ghm <ghm@example.com>"
    IN  /\ last.op = "AddWorkflowGit" =>
            /\ last.res.staged \subseteq written
            /\ last.res.pushed \subseteq written
            /\ last.res.commit # NoCommit => fixed(last.res.commit)
        /\ last.op = "AddWorkflowGoGit" =>
            /\ last.facts.staged \subseteq written
            /\ last.facts.pushed \subseteq written
            /\ last.facts.commit # NoCommit => fixed(last.facts.commit)

----------------------------------------------------------------------------
(* The batch operations on a store that earlier runs have filled:          *)
(* secrets.json holds saved secrets and repos.json holds records           *)

BatchSecretFiles == {JsonFile([n \in {"A", "B"} |-> IF n = "A" THEN "v1" ELSE "v2"])}

BatchConfigs ==
    {EmptyRepos,
     [r \in {RepoA, RepoB} |-> IF r = RepoA THEN RepoConfig(<< >>, <<"ci">>, 0)
                                            ELSE RepoConfig(<<"B">>, << >>, 0)]}

(* What the remote accepted and was pushed in the runs that made a record *)
SecretsOf(reposConfig) ==
    UNION {{<<r, reposConfig[r].Secrets[i]>> : i \in 1..Len(reposConfig[r].Secrets)} :
                r \in DOMAIN reposConfig}

WorkflowsOf(reposConfig) ==
    UNION {{<<r, reposConfig[r].Workflows[i]>> : i \in 1..Len(reposConfig[r].Workflows)} :
                r \in DOMAIN reposConfig}

InitBatch ==
    /\ secretsFile \in BatchSecretFiles
    /\ workflowsFile = JsonFile([n \in {"ci"} |-> "c1"])
    /\ \E reposConfig \in BatchConfigs :
          /\ reposFile = IF reposConfig = EmptyRepos THEN AbsentFile
                         ELSE SaveReposConfig(reposConfig)
          /\ accepted = SecretsOf(reposConfig)
          /\ delivered = WorkflowsOf(reposConfig)
    /\ now = 0
    /\ ops = 0
    /\ batch = Idle
    /\ last = [op |-> "none"]
    /\ config = NoConfig

(* One command: the process ends when the batch has returned *)
NextBatch ==
    \/ Tick
    \/ \E names \in SeqsUpTo(BatchSecretNames, MaxBatch) : BatchBegin("secrets", RepoA, names)
    \/ \E names \in SeqsUpTo(BatchWorkflowNames, MaxBatch) :
          BatchBegin("workflows", RepoA, names)
    \/ \E c \in BatchSecretEnvsFor(batch.repo) : BatchSecretItem(c[1], c[2])
    \/ \E c \in BatchWorkflowEnvsFor(batch.repo) : BatchWorkflowItem(c[1], c[2])
    \/ BatchEnd

SpecBatch == InitBatch /\ [][NextBatch]_vars

(* One pass of a batch loop: the step from one name to the next *)
ItemStep ==
    /\ batch.pc \in {"secrets", "workflows"}
    /\ batch'.pc = batch.pc
    /\ batch'.i = batch.i + 1

ItemSucceeded == last'.op \in {"AddSecret", "AddWorkflow"} /\ last'.res.err = Nil

(* The record the pass appends to: the one reposConfig holds, or a new one *)
(* with empty lists                                                        *)
RecordBefore ==
    IF batch.repo \in DOMAIN batch.cfg
    THEN batch.cfg[batch.repo]
    ELSE RepoConfig(<< >>, << >>, now)

(* C27: a pass of a batch changes the in-memory ReposConfig only for the   *)
(* target repository and only when the item succeeded: the record is       *)
(* created, with empty lists, by the first success; a successful secret    *)
(* item appends its name to Secrets, sets LastUpdate to the current time   *)
(* and leaves Workflows as they were (and the other way round for a        *)
(* workflow item); the records of the other repositories stay as they      *)
(* are; a batch in which nothing succeeded returns the ReposConfig it was  *)
(* given.                                                                  *)
C27_BatchRecordsOnlyTargetOnSuccess ==
    [][/\ ItemStep =>
            /\ DOMAIN batch'.cfg \subseteq DOMAIN batch.cfg \cup {batch.repo}
            /\ \A r \in DOMAIN batch.cfg \ {batch.repo} :
                  r \in DOMAIN batch'.cfg /\ batch'.cfg[r] = batch.cfg[r]
            /\ ~ItemSucceeded => batch'.cfg = batch.cfg
            /\ ItemSucceeded =>
                  /\ batch.repo \in DOMAIN batch'.cfg
                  /\ batch'.cfg[batch.repo].LastUpdate = now
                  /\ batch.pc = "secrets" =>
                        /\ batch'.cfg[batch.repo].Secrets =
                                Append(RecordBefore.Secrets, batch.names[batch.i])
                        /\ batch'.cfg[batch.repo].Workflows = RecordBefore.Workflows
                  /\ batch.pc = "workflows" =>
                        /\ batch'.cfg[batch.repo].Workflows =
                                Append(RecordBefore.Workflows, batch.names[batch.i])
                        /\ batch'.cfg[batch.repo].Secrets = RecordBefore.Secrets
       /\ (batch.pc # "idle" /\ batch'.pc = "idle" /\ batch.succeeded = << >>) =>
            batch.cfg = batch.base
      ]_vars

(* a secret item that succeeded, at a later time, on a repository whose    *)
(* record already held a workflow, next to the record of another           *)
(* repository                                                              *)
C27_SecretOnRecordWithWorkflowWitness ==
    /\ last.op = "AddSecret"
    /\ last.via = "batch"
    /\ last.res.err = Nil
    /\ now = 1
    /\ batch.repo \in DOMAIN batch.base
    /\ batch.base[batch.repo].Workflows # << >>
    /\ DOMAIN batch.cfg # {batch.repo}
    /\ Has(batch.cfg[batch.repo].Secrets, last.name)

(* C29: AddSecretsToRepo leaves the secret map of secrets.json as it was:  *)
(* a pass whose lookup or publish failed does not write the store, and a   *)
(* pass that succeeded leaves the name saved with the value the lookup     *)
(* read and every saved secret with its value.                             *)
C29_BatchLeavesSecretMapUnchanged ==
    (last.op \in {"AddSecret", "lookup"} /\ last.via = "batch") =>
        /\ secretsFile = last.before
        /\ (last.op = "AddSecret" /\ last.res.err = Nil) =>
              /\ secretsFile.kind = "json"
              /\ last.name \in DOMAIN secretsFile.data
              /\ secretsFile.data[last.name] = last.value

----------------------------------------------------------------------------
(* The GitHub token on its way through main: what a run writes to the      *)
(* terminal and the log (the logger writes to standard output)             *)

Tokens == {"g1", "g2"}

(* One line of output: a fixed text and the value formatted into it *)
Line(text, arg) == [text |-> text, arg |-> arg]

(* promptui with Mask '*' echoes one asterisk for every character typed;   *)
(* the tokens here have two characters.                                    *)
Mask(token) == IF token = "" THEN "" ELSE "**"

(* config.json before the run: none, one without a token, one with a token *)
TokenFiles ==
    {AbsentFile, JsonFile(EmptyMap)}
        \cup {JsonFile([k \in {"github_token"} |-> t]) : t \in Tokens}

(* What initConfig prints *)
initConfigOut(file) ==
    IF ReadInConfig([NewViper EXCEPT !.configPaths = <<".">>], file).err # Nil
    THEN <<Line("Config file not found; using defaults", "")>>
    ELSE << >>

(* The lines StoreConfigStrategy.Execute logs *)
StoreConfigOut(ConfigKey, v, file, err) ==
    IF err = Nil THEN <<Line("Configuration saved successfully.", ConfigKey)>>
    ELSE IF getConfigFile(v, file) = "" THEN <<Line("Error creating config file", err)>>
    ELSE <<Line("Error writing config", err)>>

(* GetGitHubToken after the prompt returned the token: s is the result of *)
(* StoreConfigStrategy.Execute.                                            *)
GetGitHubTokenStored(token, v, file, s) ==
    IF s.err # Nil
    THEN [token |-> "", err |-> s.err, file |-> s.file, v |-> s.v,
          out |-> <<Line("Enter your GitHub token", Mask(token))>>
                    \o StoreConfigOut("github_token", v, file, s.err)
                    \o <<Line("Error storing GitHub token", s.err)>>]
    ELSE [token |-> token, err |-> Nil, file |-> s.file, v |-> s.v,
          out |-> <<Line("Enter your GitHub token", Mask(token))>>
                    \o StoreConfigOut("github_token", v, file, s.err)]

(* GetGitHubToken: the masked prompt, then StoreConfigStrategy.Execute on  *)
(* the key github_token.                                                   *)
GetGitHubToken(token, promptErr, v, file, io) ==
    IF promptErr
    THEN [token |-> "", err |-> "prompt failed", file |-> file, v |-> v,
          out |-> <<Line("Enter your GitHub token", ""),
                    Line("Error reading GitHub token", "prompt failed")>>]
    ELSE GetGitHubTokenStored(token, v, file,
                              StoreConfigExecute("github_token", token, v, file, io))

(* PersistentPreRun after the token was read from the terminal: s is the   *)
(* result of viper.Set, WriteConfig and the SafeWriteConfig fallback.      *)
PersistentPreRunSaved(v, file, s) ==
    IF s.err # Nil
    THEN [fatal |-> TRUE, file |-> s.file, v |-> s.v,
          out |-> <<Line("Enter your GitHub token: ", ""),
                    Line(IF getConfigFile(v, file) = ""
                         THEN "Error creating config file"
                         ELSE "Error writing config", s.err)>>]
    ELSE [fatal |-> FALSE, file |-> s.file, v |-> s.v,
          out |-> <<Line("Enter your GitHub token: ", ""),
                    Line("GitHub token saved successfully.", "")>>]

(* PersistentPreRun of the root command: the token comes from the          *)
(* configuration, or is read from the terminal without echo and saved.     *)
PersistentPreRun(typed, readErr, v, file, io) ==
    IF GetString("github_token", v) # ""
    THEN [fatal |-> FALSE, file |-> file, v |-> v,
          out |-> <<Line("GitHub token loaded from config.", "")>>]
    ELSE IF readErr
    THEN [fatal |-> TRUE, file |-> file, v |-> v,
          out |-> <<Line("Enter your GitHub token: ", ""),
                    Line("Error reading token", "read failed")>>]
    ELSE PersistentPreRunSaved(v, file,
                               StoreConfigExecute("github_token", typed, v, file, io))

(* What main does with the result of rootCmd.Execute() *)
Executed(cmdErr, pre) ==
    IF pre.fatal THEN pre
    ELSE IF cmdErr
    THEN [pre EXCEPT !.fatal = TRUE,
                     !.out = @ \o <<Line("Error executing command", "command failed")>>]
    ELSE [pre EXCEPT !.out = @ \o <<Line("command output", "")>>]

(* rootCmd.Execute(): PersistentPreRun, then the command *)
ExecuteRoot(typed, readErr, cmdErr, v, file, io) ==
    Executed(cmdErr, PersistentPreRun(typed, readErr, v, file, io))

(* main after rootCmd.Execute(): Fatalf ends the process before the last  *)
(* log line.                                                               *)
mainRan(begun, token, run) ==
    IF run.fatal
    THEN [out |-> begun \o <<Line("header", "")>> \o run.out, file |-> run.file,
          fatal |-> TRUE]
    ELSE [out |-> begun \o <<Line("header", "")>> \o run.out
                    \o <<Line("GitHub token obtained", token)>>,
          file |-> run.file, fatal |-> FALSE]

mainRootCmdRan(begun, run) ==
    [out |-> begun \o <<Line("header", "")>> \o run.out, file |-> run.file,
     fatal |-> run.fatal]

(* main from the header on: the TUI or the root command, then the last log *)
(* line                                                                    *)
mainRun(tui, cmdErr, io, begun, got) ==
    IF tui
    THEN [out |-> begun \o <<Line("header", ""), Line("TUI", ""),
                             Line("GitHub token obtained", got.token)>>,
          file |-> got.file, fatal |-> FALSE]
    ELSE mainRan(begun, got.token, ExecuteRoot(got.token, FALSE, cmdErr, got.v, got.file, io))

(* main after GetGitHubToken returned *)
mainGot(tui, cmdErr, io, begun, got) ==
    IF got.err # Nil
    THEN [out |-> begun \o got.out \o <<Line("Failed to get GitHub token", got.err)>>,
          file |-> got.file, fatal |-> TRUE]
    ELSE mainRun(tui, cmdErr, io, begun \o got.out, got)

(* main of the revision that asks for the token first: [out, file, fatal] *)
main(token, tui, promptErr, cmdErr, file, io) ==
    mainGot(tui, cmdErr, io, initConfigOut(file),
            GetGitHubToken(token, promptErr, initConfig(file).v, file, io))

(* main of the revision that leaves the token to the root command *)
mainRootCmd(typed, readErr, cmdErr, file, io) ==
    mainRootCmdRan(initConfigOut(file),
                   ExecuteRoot(typed, readErr, cmdErr, initConfig(file).v, file, io))

InitToken ==
    /\ secretsFile = AbsentFile
    /\ workflowsFile = AbsentFile
    /\ reposFile = AbsentFile
    /\ accepted = {}
    /\ delivered = {}
    /\ now = 0
    /\ ops = 0
    /\ batch = Idle
    /\ last = [op |-> "none"]
    /\ \E file \in TokenFiles : config = [NoConfig EXCEPT !.file = file]

(* One process from start to exit *)
RunMain(token, tui, promptErr, cmdErr, io) ==
    /\ LET res == main(token, tui, promptErr, cmdErr, config.file, io)
       IN  /\ config' = [config EXCEPT !.file = res.file]
           /\ last' = [op |-> "main", token |-> token, tui |-> tui, inputErr |-> promptErr,
                       cmdErr |-> cmdErr, io |-> io, before |-> config.file, res |-> res]
    /\ UNCHANGED <<secretsFile, workflowsFile, reposFile, accepted, delivered, now, ops, batch>>

RunMainRootCmd(typed, readErr, cmdErr, io) ==
    /\ LET res == mainRootCmd(typed, readErr, cmdErr, config.file, io)
       IN  /\ config' = [config EXCEPT !.file = res.file]
           /\ last' = [op |-> "mainRootCmd", token |-> typed, tui |-> FALSE,
                       inputErr |-> readErr, cmdErr |-> cmdErr, io |-> io,
                       before |-> config.file, res |-> res]
    /\ UNCHANGED <<secretsFile, workflowsFile, reposFile, accepted, delivered, now, ops, batch>>

NextToken ==
    \/ \E token \in Tokens, tui \in BOOLEAN, promptErr \in BOOLEAN, cmdErr \in BOOLEAN,
          io \in ConfigIo : RunMain(token, tui, promptErr, cmdErr, io)
    \/ \E typed \in Tokens, readErr \in BOOLEAN, cmdErr \in BOOLEAN, io \in ConfigIo :
          RunMainRootCmd(typed, readErr, cmdErr, io)

SpecToken == InitToken /\ [][NextToken]_vars

(* The file with the token in it replaced *)
WithToken(file, token) ==
    IF file.kind = "json" /\ "github_token" \in DOMAIN file.data
    THEN JsonFile(Put(file.data, "github_token", token))
    ELSE file

(* The run in last, made again with another token and everything else the  *)
(* same                                                                    *)
SameRunWith(token) ==
    IF last.op = "main"
    THEN main(token, last.tui, last.inputErr, last.cmdErr, WithToken(last.before, token),
              last.io)
    ELSE mainRootCmd(token, last.inputErr, last.cmdErr, WithToken(last.before, token),
                     last.io)

----------------------------------------------------------------------------
(* Execute of the gh revision step by step, next to the goroutine that     *)
(* drives its progress bar                                                 *)

(* The iterations of the goroutine's loop that are followed (100 in the    *)
(* code)                                                                   *)
MaxTicks == 3

(* StartProgress(100) and "go func()": the bar is started and the          *)
(* goroutine begins its loop; Execute goes on to the gh command.           *)
StartExecuteGh(secretName, secretValue, gh, io) ==
    /\ last.op = "none" \/ (last.op = "ExecuteGh" /\ last.pc = "exited")
    /\ ops < MaxOps
    /\ ops' = ops + 1
    /\ last' = [op |-> "ExecuteGh", pc |-> "call", i |-> 0, finished |-> FALSE, late |-> 0,
                repo |-> RepoA, name |-> secretName, value |-> secretValue, gh |-> gh,
                io |-> io, before |-> secretsFile, acceptedBefore |-> accepted]
    /\ UNCHANGED <<secretsFile, workflowsFile, reposFile, accepted, delivered, now, batch, config>>

(* One iteration of the goroutine: the sleep is over, progress.Increment() *)
ProgressIncrement ==
    /\ last.op = "ExecuteGh"
    /\ last.pc # "exited"
    /\ last.i < MaxTicks
    /\ last' = [last EXCEPT !.i = @ + 1,
                            !.late = IF last.finished THEN @ + 1 ELSE @]
    /\ UNCHANGED <<secretsFile, workflowsFile, reposFile, accepted, delivered, now, ops, batch, config>>

(* cmd.CombinedOutput() returns *)
GhReturns ==
    /\ last.op = "ExecuteGh"
    /\ last.pc = "call"
    /\ accepted' = IF last.gh = "ok" THEN accepted \cup {<<last.repo, last.name>>}
                   ELSE accepted
    /\ last' = [last EXCEPT !.pc = "finish"]
    /\ UNCHANGED <<secretsFile, workflowsFile, reposFile, delivered, now, ops, batch, config>>

(* progress.Finish(), then the error of the command is looked at *)
ProgressFinish ==
    /\ last.op = "ExecuteGh"
    /\ last.pc = "finish"
    /\ last' = [last EXCEPT !.finished = TRUE,
                            !.pc = IF last.gh = "err" THEN "return" ELSE "save"]
    /\ UNCHANGED <<secretsFile, workflowsFile, reposFile, accepted, delivered, now, ops, batch, config>>

(* saveSecretLocally(a.SecretName, a.SecretValue) *)
SaveLocallyGh ==
    /\ last.op = "ExecuteGh"
    /\ last.pc = "save"
    /\ secretsFile' = saveSecretLocallyGh(last.name, last.value, secretsFile, last.io)
    /\ last' = [last EXCEPT !.pc = "return"]
    /\ UNCHANGED <<workflowsFile, reposFile, accepted, delivered, now, ops, batch, config>>

(* Execute returns, the command is over and the process exits, which ends  *)
(* the goroutine.                                                          *)
ExecuteGhReturns ==
    /\ last.op = "ExecuteGh"
    /\ last.pc = "return"
    /\ last' = [last EXCEPT !.pc = "exited"]
    /\ UNCHANGED <<secretsFile, workflowsFile, reposFile, accepted, delivered, now, ops, batch, config>>

NextProgress ==
    \/ \E n \in BatchSecretNames, v \in SecretValues, gh \in {"ok", "err"},
          io \in {"ok", "create"} : StartExecuteGh(n, v, gh, io)
    \/ ProgressIncrement
    \/ GhReturns
    \/ ProgressFinish
    \/ SaveLocallyGh
    \/ ExecuteGhReturns

SpecProgress == Init /\ [][NextProgress]_vars

(* What Execute does when nothing runs next to it *)
SequentialGh ==
    AddSecretExecuteGh(last.repo, last.name, last.value, last.gh, last.before, last.io)

(* The part of C28 about the outcome: whatever the goroutine did, the      *)
(* finished Execute has made the remote call and the store update that     *)
(* Execute alone makes.                                                    *)
ProgressLeavesOutcome ==
    (last.op = "ExecuteGh" /\ last.pc = "exited") =>
        /\ secretsFile = SequentialGh.file
        /\ accepted = IF last.gh = "ok"
                      THEN last.acceptedBefore \cup {<<last.repo, last.name>>}
                      ELSE last.acceptedBefore

(* C28: the progress goroutine changes nothing of what Execute does, under *)
(* every interleaving of its ticks with the blocking call, and the         *)
(* indicator is stopped when the call returns: progress.Finish is called   *)
(* only after the call, and no progress.Increment happens after            *)
(* progress.Finish.                                                        *)
C28_ProgressStopsAtFinish ==
    /\ ProgressLeavesOutcome
    /\ last.op = "ExecuteGh" =>
          /\ last.finished => last.pc \notin {"call", "finish"}
          /\ last.late = 0

====
